---------------------------- MODULE Spec2Model ----------------------------
(***************************************************************************)
(* Model of the two RAG-to-Semgrep converters of crashappsec/zero:         *)
(*   utils/scanners/semgrep/rag-security-to-semgrep.py  (category-pattern  *)
(*       pipeline: parse_security_patterns, convert_patterns_to_rules,     *)
(*       process_directory)                                                *)
(*   utils/scanners/semgrep/rag-to-semgrep.py  (technology-descriptor      *)
(*       pipeline: PatternParser, regex_to_semgrep, convert_technology,    *)
(*       process_rag_directory)                                            *)
(*                                                                         *)
(* A Python str is a sequence of one-character strings.  The newline is    *)
(* "\n"; the backquote, which a TLA+ string cannot hold, is the atom       *)
(* Backtick.                                                               *)
(***************************************************************************)
EXTENDS Integers, Sequences, FiniteSets, TLC

(***************************************************************************)
(* Python str primitives                                                   *)
(***************************************************************************)
NL == "\n"

Backtick == "BACKTICK"

UC == <<"A", "B", "C", "D", "E", "F", "G", "H", "I", "J", "K", "L", "M",
        "N", "O", "P", "Q", "R", "S", "T", "U", "V", "W", "X", "Y", "Z">>

LC == <<"a", "b", "c", "d", "e", "f", "g", "h", "i", "j", "k", "l", "m",
        "n", "o", "p", "q", "r", "s", "t", "u", "v", "w", "x", "y", "z">>

DIGITS == <<"0", "1", "2", "3", "4", "5", "6", "7", "8", "9">>

Range(f) == {f[k] : k \in DOMAIN f}

SetMin(S) == CHOOSE m \in S : \A n \in S : m <= n

SetMax(S) == CHOOSE m \in S : \A n \in S : m >= n

\* str.isspace for the characters of the model's alphabet
IsSpace(c) == c \in {" ", "\t", NL}

\* one character of str.lower()
LowerChar(c) ==
    IF c \in Range(UC) THEN LC[CHOOSE k \in DOMAIN UC : UC[k] = c] ELSE c

\* one character of str.upper()
UpperChar(c) ==
    IF c \in Range(LC) THEN UC[CHOOSE k \in DOMAIN LC : LC[k] = c] ELSE c

\* str.lower()
Lower(s) == [k \in 1..Len(s) |-> LowerChar(s[k])]

\* str.upper()
Upper(s) == [k \in 1..Len(s) |-> UpperChar(s[k])]

\* s.startswith(p)
StartsWith(s, p) == Len(s) >= Len(p) /\ SubSeq(s, 1, Len(p)) = p

\* s.endswith(p)
EndsWith(s, p) == Len(s) >= Len(p) /\ SubSeq(s, Len(s) - Len(p) + 1, Len(s)) = p

\* whether p occurs in s at (1-based) position k
OccursAt(s, p, k) == k >= 1 /\ k + Len(p) - 1 <= Len(s) /\ SubSeq(s, k, k + Len(p) - 1) = p

\* s.find(p, from): the first position >= from where p occurs, 0 when none
Find(s, p, from) ==
    LET hits == {k \in from..Len(s) : OccursAt(s, p, k)}
    IN  IF hits = {} THEN 0 ELSE SetMin(hits)

\* p in s
Contains(s, p) == Find(s, p, 1) # 0

\* s.strip()
Strip(s) ==
    LET keep == {k \in 1..Len(s) : ~IsSpace(s[k])}
    IN  IF keep = {} THEN <<>> ELSE SubSeq(s, SetMin(keep), SetMax(keep))

\* s.strip('-')
StripHyphen(s) ==
    LET keep == {k \in 1..Len(s) : s[k] # "-"}
    IN  IF keep = {} THEN <<>> ELSE SubSeq(s, SetMin(keep), SetMax(keep))

\* s.split(sep) for a one-character sep
RECURSIVE Split(_, _)
Split(s, sep) ==
    LET hits == {k \in 1..Len(s) : s[k] = sep}
    IN  IF hits = {} THEN <<s>>
        ELSE <<SubSeq(s, 1, SetMin(hits) - 1)>>
                 \o Split(SubSeq(s, SetMin(hits) + 1, Len(s)), sep)

\* sep.join(parts) for a one-character sep
RECURSIVE Join(_, _)
Join(parts, sep) ==
    IF Len(parts) = 0 THEN <<>>
    ELSE IF Len(parts) = 1 THEN parts[1]
    ELSE parts[1] \o <<sep>> \o Join(Tail(parts), sep)

\* s.split(':', 1)[1] of a string that holds a colon
AfterColon(s) ==
    LET c == SetMin({k \in 1..Len(s) : s[k] = ":"})
    IN  SubSeq(s, c + 1, Len(s))

\* [x.strip() for x in s.split(',')]
SplitCommaStrip(s) ==
    LET parts == Split(s, ",")
    IN  [k \in 1..Len(parts) |-> Strip(parts[k])]

\* the value of a string of decimal digits
RECURSIVE DigitsValue(_)
DigitsValue(s) ==
    IF Len(s) = 0 THEN 0
    ELSE 10 * DigitsValue(SubSeq(s, 1, Len(s) - 1))
             + (CHOOSE d \in 0..9 : DIGITS[d + 1] = s[Len(s)])

\* int(s): [ok |-> whether s parses, val |-> its value]; the text is an
\* optional sign and decimal digits, with white space around it
ParseInt(s) ==
    LET t      == Strip(s)
        signed == Len(t) > 0 /\ t[1] \in {"+", "-"}
        body   == IF signed THEN Tail(t) ELSE t
        ok     == Len(body) > 0 /\ \A k \in 1..Len(body) : body[k] \in Range(DIGITS)
    IN  IF ~ok THEN [ok |-> FALSE, val |-> 0]
        ELSE [ok |-> TRUE,
              val |-> IF signed /\ t[1] = "-" THEN 0 - DigitsValue(body)
                      ELSE DigitsValue(body)]

\* str(n) of a natural number
RECURSIVE Str(_)
Str(n) == IF n < 10 THEN <<DIGITS[n + 1]>> ELSE Str(n \div 10) \o <<DIGITS[(n % 10) + 1]>>

\* re.sub(r'[^a-z0-9]+', '-', s): every run of other characters becomes one '-'
RECURSIVE SubNonAlnum(_)
SubNonAlnum(s) ==
    LET alnum(c) == c \in Range(LC) \/ c \in Range(DIGITS)
    IN  IF Len(s) = 0 THEN <<>>
        ELSE IF alnum(s[1]) THEN <<s[1]>> \o SubNonAlnum(Tail(s))
        ELSE LET rest == {k \in 2..Len(s) : alnum(s[k])}
             IN  IF rest = {} THEN <<"-">>
                 ELSE <<"-">> \o SubNonAlnum(SubSeq(s, SetMin(rest), Len(s)))

\* s[:n]
Prefix(s, n) == SubSeq(s, 1, IF Len(s) < n THEN Len(s) ELSE n)

(***************************************************************************)
(* rag-security-to-semgrep.py: the category-pattern pipeline               *)
(***************************************************************************)
KwCategory == <<"C", "A", "T", "E", "G", "O", "R", "Y", ":">>

KwSeverity == <<"S", "E", "V", "E", "R", "I", "T", "Y", ":">>

KwConfidence == <<"C", "O", "N", "F", "I", "D", "E", "N", "C", "E", ":">>

KwCwe == <<"C", "W", "E", ":">>

KwOwasp == <<"O", "W", "A", "S", "P", ":">>

KwHeader == <<"#", "#", "#", " ">>

KwFence == <<Backtick, Backtick, Backtick>>

KwPattern == <<"P", "A", "T", "T", "E", "R", "N", ":">>

KwLanguages == <<"L", "A", "N", "G", "U", "A", "G", "E", "S", ":">>

KwNone == <<"n", "o", "n", "e">>

Generic == <<"g", "e", "n", "e", "r", "i", "c">>

Javascript == <<"j", "a", "v", "a", "s", "c", "r", "i", "p", "t">>

Typescript == <<"t", "y", "p", "e", "s", "c", "r", "i", "p", "t">>

Python == <<"p", "y", "t", "h", "o", "n">>

Java == <<"j", "a", "v", "a">>

Go == <<"g", "o">>

Ruby == <<"r", "u", "b", "y">>

Yaml == <<"y", "a", "m", "l">>

Json == <<"j", "s", "o", "n">>

Graphql == <<"g", "r", "a", "p", "h", "q", "l">>

Critical == <<"c", "r", "i", "t", "i", "c", "a", "l">>

High == <<"h", "i", "g", "h">>

Medium == <<"m", "e", "d", "i", "u", "m">>

Low == <<"l", "o", "w">>

Info == <<"i", "n", "f", "o">>

\* the default confidence of current_meta
DefaultConfidence == 80

\* the length create_rule_id cuts the slug to
SlugMax == 50

\* current_meta as parse_security_patterns sets it up
MetaDefault ==
    [category |-> <<>>, severity |-> Medium, confidence |-> DefaultConfidence,
     cwe |-> <<>>, owasp |-> <<>>, description |-> <<>>]

\* UpdateMeta with a CONFIDENCE value that fails to parse putting the
\* default back, every other branch as in UpdateMeta
UpdateMetaResetConfidence(meta, line) ==
    IF StartsWith(line, KwCategory)
    THEN [meta EXCEPT !.category = Strip(AfterColon(line))]
    ELSE IF StartsWith(line, KwSeverity)
    THEN [meta EXCEPT !.severity = Lower(Strip(AfterColon(line)))]
    ELSE IF StartsWith(line, KwConfidence)
    THEN LET n == ParseInt(Strip(AfterColon(line)))
         IN  [meta EXCEPT !.confidence = IF n.ok THEN n.val ELSE DefaultConfidence]
    ELSE IF StartsWith(line, KwCwe)
    THEN LET cwe == Strip(AfterColon(line))
         IN  IF cwe # <<>> /\ Lower(cwe) # KwNone
             THEN [meta EXCEPT !.cwe = SplitCommaStrip(cwe)] ELSE meta
    ELSE IF StartsWith(line, KwOwasp)
    THEN LET owasp == Strip(AfterColon(line))
         IN  IF owasp # <<>> /\ Lower(owasp) # KwNone
             THEN [meta EXCEPT !.owasp = SplitCommaStrip(owasp)] ELSE meta
    ELSE IF StartsWith(line, KwHeader)
    THEN [meta EXCEPT !.description = Strip(SubSeq(line, 5, Len(line)))]
    ELSE meta

\* the if/elif chain of the metadata markers, applied to the stripped line
UpdateMeta(meta, line) ==
    IF StartsWith(line, KwCategory)
    THEN [meta EXCEPT !.category = Strip(AfterColon(line))]
    ELSE IF StartsWith(line, KwSeverity)
    THEN [meta EXCEPT !.severity = Lower(Strip(AfterColon(line)))]
    ELSE IF StartsWith(line, KwConfidence)
    THEN LET n == ParseInt(Strip(AfterColon(line)))
         IN  IF n.ok THEN [meta EXCEPT !.confidence = n.val] ELSE meta
    ELSE IF StartsWith(line, KwCwe)
    THEN LET cwe == Strip(AfterColon(line))
         IN  IF cwe # <<>> /\ Lower(cwe) # KwNone
             THEN [meta EXCEPT !.cwe = SplitCommaStrip(cwe)] ELSE meta
    ELSE IF StartsWith(line, KwOwasp)
    THEN LET owasp == Strip(AfterColon(line))
         IN  IF owasp # <<>> /\ Lower(owasp) # KwNone
             THEN [meta EXCEPT !.owasp = SplitCommaStrip(owasp)] ELSE meta
    ELSE IF StartsWith(line, KwHeader)
    THEN [meta EXCEPT !.description = Strip(SubSeq(line, 5, Len(line)))]
    ELSE meta

\* whether the stripped line is taken by a branch before the fence branch
IsMetaLine(line) ==
    \E kw \in {KwCategory, KwSeverity, KwConfidence, KwCwe, KwOwasp, KwHeader} :
        StartsWith(line, kw)

\* lines[k].strip().startswith('```')
IsFence(l) == StartsWith(Strip(l), KwFence)

\* where the inner while loop stops: the first fence line after the opening
\* one, or one past the last line
BlockEnd(ls, open) ==
    LET closing == {k \in (open + 1)..Len(ls) : IsFence(ls[k])}
    IN  IF closing = {} THEN Len(ls) + 1 ELSE SetMin(closing)

\* re.search(kw + r'\s*(.+?)(?:\n|$)', s) as [found, group]: the leftmost
\* kw from which a match exists; \s* is greedy over white space (newlines
\* included) and gives characters back until (.+?) can start on a character
\* that is not a newline; (.+?) then runs to the end of that line
KwSearch(kw, s) ==
    LET wsEnd(a) ==
            LET non == {k \in a..Len(s) : ~IsSpace(s[k])}
            IN  IF non = {} THEN Len(s) + 1 ELSE SetMin(non)
        starts(p) ==
            {g \in (p + Len(kw))..wsEnd(p + Len(kw)) : g <= Len(s) /\ s[g] # NL}
        hits == {p \in 1..Len(s) : OccursAt(s, kw, p) /\ starts(p) # {}}
    IN  IF hits = {} THEN [found |-> FALSE, group |-> <<>>]
        ELSE LET g   == SetMax(starts(SetMin(hits)))
                 nls == {k \in (g + 1)..Len(s) : s[k] = NL}
                 e   == IF nls = {} THEN Len(s) ELSE SetMin(nls) - 1
             IN  [found |-> TRUE, group |-> SubSeq(s, g, e)]

\* the record a fenced block yields: <<record>> when block_content holds a
\* PATTERN: match, << >> otherwise
BlockRecords(meta, block_content) ==
    LET pattern_match == KwSearch(KwPattern, block_content)
        lang_match    == KwSearch(KwLanguages, block_content)
    IN  IF ~pattern_match.found THEN <<>>
        ELSE <<[category    |-> meta.category,
                severity    |-> meta.severity,
                confidence  |-> meta.confidence,
                cwe         |-> meta.cwe,
                owasp       |-> meta.owasp,
                description |-> meta.description,
                regex       |-> Strip(pattern_match.group),
                languages   |-> IF lang_match.found
                                THEN SplitCommaStrip(lang_match.group)
                                ELSE <<Generic>>]>>

\* severity_to_semgrep with the table of convert_technology's severity_map:
\* high gives WARNING and info falls to the default
severity_to_semgrep_high_warning(severity) ==
    LET s == Lower(severity)
    IN  IF s = Critical THEN "ERROR"
        ELSE IF s = Low THEN "INFO"
        ELSE "WARNING"

\* severity_to_semgrep
severity_to_semgrep(severity) ==
    LET s == Lower(severity)
    IN  IF s = Critical THEN "ERROR"
        ELSE IF s = High THEN "ERROR"
        ELSE IF s = Medium THEN "WARNING"
        ELSE IF s = Low THEN "INFO"
        ELSE IF s = Info THEN "INFO"
        ELSE "WARNING"

\* create_rule_id
create_rule_id(category, description, index) ==
    LET slug    == StripHyphen(Prefix(SubNonAlnum(Lower(description)), SlugMax))
        desc_id == IF slug = <<>> THEN <<"p", "a", "t", "t", "e", "r", "n", "-">> \o Str(index)
                   ELSE slug
    IN  <<"z", "e", "r", "o", ".">> \o category \o <<".">> \o desc_id

\* UniqueId without its loop: the generated id is taken as it is
UniqueIdUnchecked(base_id, rule_id, counter, seen) == rule_id

\* UniqueId with the suffixes counted from the counter's successor
RECURSIVE UniqueIdSkipOne(_, _, _, _)
UniqueIdSkipOne(base_id, rule_id, counter, seen) ==
    IF rule_id \in seen
    THEN UniqueIdSkipOne(base_id, base_id \o <<"-">> \o Str(counter + 1), counter + 1, seen)
    ELSE rule_id

\* the `while rule_id in seen_ids` loop
RECURSIVE UniqueId(_, _, _, _)
UniqueId(base_id, rule_id, counter, seen) ==
    IF rule_id \in seen
    THEN UniqueId(base_id, base_id \o <<"-">> \o Str(counter), counter + 1, seen)
    ELSE rule_id

\* lang_mapping.get(lang.lower().strip(), 'generic')
LangMapped(lang) ==
    LET l == Strip(Lower(lang))
    IN  IF l \in {Javascript, Typescript, Python, Java, Go, Ruby, Generic, Yaml, Json}
        THEN l
        ELSE Generic

\* the loop that maps p['languages'], keeping the first occurrence of each
RECURSIVE MapLanguages(_, _)
MapLanguages(langs, acc) ==
    IF Len(langs) = 0 THEN acc
    ELSE MapLanguages(Tail(langs),
                      IF LangMapped(Head(langs)) \in Range(acc) THEN acc
                      ELSE Append(acc, LangMapped(Head(langs))))

\* the mapped list as it is, typescript never added
RuleLanguagesNoTypescript(langs) ==
    IF MapLanguages(langs, <<>>) = <<>> THEN <<Generic>> ELSE MapLanguages(langs, <<>>)

\* the rule's languages: the mapped list, typescript added after javascript,
\* ['generic'] when the list is empty
RuleLanguages(langs) ==
    LET mapped == MapLanguages(langs, <<>>)
        withTs == IF Javascript \in Range(mapped) /\ Typescript \notin Range(mapped)
                  THEN Append(mapped, Typescript) ELSE mapped
    IN  IF withTs = <<>> THEN <<Generic>> ELSE withTs

\* rag_path.name of the directory the run is given
base_category == <<"a", "p", "i">>

\* category = p['category'] or base_category
RuleCategory(p) == IF p.category # <<>> THEN p.category ELSE base_category

\* description = p['description'] or f"{category} security issue"
RuleDescription(p) ==
    IF p.description # <<>> THEN p.description
    ELSE RuleCategory(p)
             \o <<" ", "s", "e", "c", "u", "r", "i", "t", "y", " ", "i", "s", "s", "u", "e">>

\* the id create_rule_id gives record p at position index, before the
\* seen-id loop
RuleBaseId(p, index) == create_rule_id(RuleCategory(p), RuleDescription(p), index)

\* BuildRule with the regex stored under the key of a native pattern
BuildRuleNativeKey(p, rule_id) ==
    [id        |-> rule_id,
     message   |-> RuleDescription(p),
     severity  |-> severity_to_semgrep(p.severity),
     languages |-> RuleLanguages(p.languages),
     metadata  |-> [category   |-> RuleCategory(p),
                    confidence |-> p.confidence,
                    scanner    |-> base_category],
     pattern   |-> p.regex]

\* the rule dict, with cwe and owasp in its metadata only when non-empty
BuildRule(p, rule_id) ==
    LET metadata == [category   |-> RuleCategory(p),
                     confidence |-> p.confidence,
                     scanner    |-> base_category]
                        @@ (IF p.cwe # <<>> THEN [cwe |-> p.cwe] ELSE <<>>)
                        @@ (IF p.owasp # <<>> THEN [owasp |-> p.owasp] ELSE <<>>)
    IN  [id        |-> rule_id,
         message   |-> RuleDescription(p),
         severity  |-> severity_to_semgrep(p.severity),
         languages |-> RuleLanguages(p.languages),
         metadata  |-> metadata]
            @@ ("pattern-regex" :> p.regex)

VARIABLES
    md_files,      \* process_directory: the sorted *.md files, [name, content]
    md_raises,     \* environment: the positions in md_files whose read raises
    fidx,          \* process_directory: position in md_files (1-based)
    lines,         \* parse_security_patterns: content.split('\n')
    i,             \* parse_security_patterns: position in lines (1-based)
    current_meta,  \* parse_security_patterns: the running metadata
    patterns,      \* parse_security_patterns: the records of this document
    all_patterns,  \* process_directory: the records of the documents so far
    origin,        \* history: per emitted record, [file, line] of its opening fence
    ci,            \* convert_patterns_to_rules: records converted (enumerate's i)
    rules,         \* convert_patterns_to_rules: the rules emitted so far
    seen_ids,      \* convert_patterns_to_rules: seen_ids
    output,        \* process_directory: what yaml.dump is handed, << >> before
    pc,            \* where process_directory is
    pattern_files, \* process_rag_directory: the patterns.md files, [dir, content]
    pfi,           \* process_rag_directory: position in pattern_files (1-based)
    data,          \* PatternParser: parser.data of the file being processed
    all_rules,     \* process_rag_directory: the three buckets
    written,       \* process_rag_directory: the bucket files written
    pf_raises,     \* environment: the positions in pattern_files whose read raises
    tpc,           \* where rag-to-semgrep.py is
    call_regex,    \* regex_to_semgrep: the argument regex_pattern
    call_language, \* regex_to_semgrep: the argument language
    call_result,   \* regex_to_semgrep: the value returned, as Optional[str]
    fpc            \* where the call of regex_to_semgrep is

secVars ==
    <<md_files, md_raises, fidx, lines, i, current_meta, patterns, all_patterns, origin,
      ci, rules, seen_ids, output, pc>>

techVars == <<pattern_files, pf_raises, pfi, data, all_rules, written, tpc>>

fnVars == <<call_regex, call_language, call_result, fpc>>

vars == <<secVars, techVars, fnVars>>

\* self.data as PatternParser.__init__ sets it up, for the fields
\* convert_technology reads
EmptyData ==
    [name       |-> <<>>,
     category   |-> <<>>,
     packages   |-> [npm |-> <<>>, pypi |-> <<>>, go |-> <<>>,
                     rubygems |-> <<>>, maven |-> <<>>],
     env_vars   |-> <<>>,
     imports    |-> [python |-> <<>>, javascript |-> <<>>, go |-> <<>>,
                     ruby |-> <<>>, java |-> <<>>],
     secrets    |-> <<>>,
     confidence |-> <<>>]

\* all_rules as process_rag_directory sets it up
EmptyBuckets == [b \in {"tech-discovery", "secrets", "tech-debt"} |-> <<>>]

\* regex_to_semgrep is not being called on its own
FnIdle ==
    /\ call_regex = <<>>
    /\ call_language = <<>>
    /\ call_result = [some |-> FALSE, text |-> <<>>]
    /\ fpc = "idle"

\* rag-to-semgrep.py is not running
TechIdle ==
    /\ pattern_files = <<>>
    /\ pf_raises = {}
    /\ pfi = 1
    /\ data = EmptyData
    /\ all_rules = EmptyBuckets
    /\ written = <<>>
    /\ tpc = "idle"

\* process_directory up to the loop over md_files, the reads of the files at
\* the positions raises being the ones that raise
SecStart(files, raises) ==
    /\ md_files = files
    /\ md_raises = raises
    /\ fidx = 1
    /\ lines = <<>>
    /\ i = 1
    /\ current_meta = MetaDefault
    /\ patterns = <<>>
    /\ all_patterns = <<>>
    /\ origin = <<>>
    /\ ci = 0
    /\ rules = <<>>
    /\ seen_ids = {}
    /\ output = <<>>
    /\ pc = "files"

\* process_directory up to the loop over md_files, every file readable
InitSec(files) ==
    /\ SecStart(files, {})
    /\ TechIdle
    /\ FnIdle

\* one turn of the loop in which a read that raises ends the loop
OpenFileAbort ==
    /\ pc = "files"
    /\ fidx <= Len(md_files)
    /\ IF fidx \in md_raises
       THEN /\ fidx' = Len(md_files) + 1
            /\ UNCHANGED <<lines, i, current_meta, patterns, pc>>
       ELSE IF StartsWith(md_files[fidx].name, <<"_">>)
       THEN /\ fidx' = fidx + 1
            /\ UNCHANGED <<lines, i, current_meta, patterns, pc>>
       ELSE /\ lines' = Split(md_files[fidx].content, NL)
            /\ i' = 1
            /\ current_meta' = MetaDefault
            /\ patterns' = <<>>
            /\ pc' = "parse"
            /\ UNCHANGED fidx
    /\ UNCHANGED <<md_files, md_raises, all_patterns, origin, ci, rules, seen_ids, output>>
    /\ UNCHANGED techVars
    /\ UNCHANGED fnVars

\* one turn of `for md_file in md_files`: a file whose name starts with '_'
\* is passed over, and so is one whose read raises (the except branch); any
\* other is read and parse_security_patterns begins
OpenFile ==
    /\ pc = "files"
    /\ fidx <= Len(md_files)
    /\ IF StartsWith(md_files[fidx].name, <<"_">>) \/ fidx \in md_raises
       THEN /\ fidx' = fidx + 1
            /\ UNCHANGED <<lines, i, current_meta, patterns, pc>>
       ELSE /\ lines' = Split(md_files[fidx].content, NL)
            /\ i' = 1
            /\ current_meta' = MetaDefault
            /\ patterns' = <<>>
            /\ pc' = "parse"
            /\ UNCHANGED fidx
    /\ UNCHANGED <<md_files, md_raises, all_patterns, origin, ci, rules, seen_ids, output>>
    /\ UNCHANGED techVars
    /\ UNCHANGED fnVars

\* one turn of `while i < len(lines)`: a marker line updates current_meta, a
\* fence line consumes its block up to the closing fence and emits the
\* block's record, any other line is passed over
ParseLine ==
    /\ pc = "parse"
    /\ i <= Len(lines)
    /\ LET line == Strip(lines[i])
       IN  IF IsMetaLine(line)
           THEN /\ current_meta' = UpdateMeta(current_meta, line)
                /\ i' = i + 1
                /\ UNCHANGED <<patterns, origin>>
           ELSE IF StartsWith(line, KwFence)
           THEN LET close         == BlockEnd(lines, i)
                    block_content == Join(SubSeq(lines, i + 1, close - 1), NL)
                    emitted       == BlockRecords(current_meta, block_content)
                IN  /\ patterns' = patterns \o emitted
                    /\ origin' = IF emitted = <<>> THEN origin
                                 ELSE Append(origin, [file |-> fidx, line |-> i])
                    /\ i' = close + 1
                    /\ UNCHANGED current_meta
           ELSE /\ i' = i + 1
                /\ UNCHANGED <<current_meta, patterns, origin>>
    /\ UNCHANGED <<md_files, md_raises, fidx, lines, all_patterns, ci, rules, seen_ids, output, pc>>
    /\ UNCHANGED techVars
    /\ UNCHANGED fnVars

\* parse_security_patterns returns and all_patterns.extend(patterns)
ParseReturn ==
    /\ pc = "parse"
    /\ i > Len(lines)
    /\ all_patterns' = all_patterns \o patterns
    /\ fidx' = fidx + 1
    /\ lines' = <<>>
    /\ i' = 1
    /\ current_meta' = MetaDefault
    /\ patterns' = <<>>
    /\ pc' = "files"
    /\ UNCHANGED <<md_files, md_raises, origin, ci, rules, seen_ids, output>>
    /\ UNCHANGED techVars
    /\ UNCHANGED fnVars

\* the loop over md_files is over: convert_patterns_to_rules is called
BeginConvert ==
    /\ pc = "files"
    /\ fidx > Len(md_files)
    /\ rules' = <<>>
    /\ seen_ids' = {}
    /\ ci' = 0
    /\ pc' = "convert"
    /\ UNCHANGED <<md_files, md_raises, fidx, lines, i, current_meta, patterns, all_patterns,
                   origin, output>>
    /\ UNCHANGED techVars
    /\ UNCHANGED fnVars

\* one turn of `for i, p in enumerate(patterns)`
ConvertRecord ==
    /\ pc = "convert"
    /\ ci < Len(all_patterns)
    /\ LET p       == all_patterns[ci + 1]
           base_id == RuleBaseId(p, ci)
           rule_id == UniqueId(base_id, base_id, 1, seen_ids)
       IN  /\ seen_ids' = seen_ids \cup {rule_id}
           /\ rules' = Append(rules, BuildRule(p, rule_id))
    /\ ci' = ci + 1
    /\ UNCHANGED <<md_files, md_raises, fidx, lines, i, current_meta, patterns, all_patterns,
                   origin, output, pc>>
    /\ UNCHANGED techVars
    /\ UNCHANGED fnVars

\* convert_patterns_to_rules returns and the rules are handed to yaml.dump
WriteOutput ==
    /\ pc = "convert"
    /\ ci = Len(all_patterns)
    /\ output' = rules
    /\ pc' = "done"
    /\ UNCHANGED <<md_files, md_raises, fidx, lines, i, current_meta, patterns, all_patterns,
                   origin, ci, rules, seen_ids>>
    /\ UNCHANGED techVars
    /\ UNCHANGED fnVars

NextSec ==
    \/ OpenFile
    \/ ParseLine
    \/ ParseReturn
    \/ BeginConvert
    \/ ConvertRecord
    \/ WriteOutput

NextConvert ==
    \/ ConvertRecord
    \/ WriteOutput

(***************************************************************************)
(* convert_patterns_to_rules on every list of records                      *)
(***************************************************************************)
\* the longest list of records convert_patterns_to_rules is called on
MaxRecords == 3

\* descriptions a record can carry: none, "x", "X 1" (slug x-1), "!" (empty
\* slug) and "pattern 1" (the slug the fallback gives position 1)
ConvertDescriptions ==
    {<<>>, <<"x">>, <<"X", " ", "1">>, <<"!">>,
     <<"p", "a", "t", "t", "e", "r", "n", " ", "1">>}

\* the records the lists are made of, as parse_security_patterns emits them
ConvertRecords ==
    {[category    |-> c,
      severity    |-> Medium,
      confidence  |-> DefaultConfidence,
      cwe         |-> <<>>,
      owasp       |-> <<>>,
      description |-> d,
      regex       |-> <<"r">>,
      languages   |-> <<Generic>>] : c \in {<<>>, base_category}, d \in ConvertDescriptions}

\* convert_patterns_to_rules is entered with a list of records
InitConvert ==
    /\ md_files = <<>>
    /\ md_raises = {}
    /\ fidx = 1
    /\ lines = <<>>
    /\ i = 1
    /\ current_meta = MetaDefault
    /\ patterns = <<>>
    /\ all_patterns \in UNION {[1..n -> ConvertRecords] : n \in 0..MaxRecords}
    /\ origin = <<>>
    /\ ci = 0
    /\ rules = <<>>
    /\ seen_ids = {}
    /\ output = <<>>
    /\ pc = "convert"
    /\ TechIdle
    /\ FnIdle

SpecConvert == InitConvert /\ [][NextConvert]_vars

\* the id generated for the k-th record of the run, before the seen-id loop
BaseIdOf(k) == RuleBaseId(all_patterns[k], k - 1)

\* the ids emitted before the k-th rule
IdsBefore(k) == {rules[j].id : j \in 1..(k - 1)}

\* base_id with the suffix -n
Suffixed(base_id, n) == base_id \o <<"-">> \o Str(n)

\* C1: the ids of the rules convert_patterns_to_rules has emitted are pairwise
\* distinct, and after each record the seen-id set is exactly the set of the
\* ids emitted so far.
C1_IdsDistinct ==
    /\ \A a, b \in 1..Len(rules) : a # b => rules[a].id # rules[b].id
    /\ seen_ids = {rules[k].id : k \in 1..Len(rules)}

\* C1 witness: the conversion is over and two records of the list had
\* generated the same id.
C1_Witness ==
    /\ pc = "done"
    /\ \E a, b \in 1..Len(rules) : a < b /\ BaseIdOf(a) = BaseIdOf(b)

\* C3 as claimed: the first record whose generated id is B is emitted as B,
\* and every later record with generated id B is emitted as B-n for the
\* smallest positive n not among the ids seen before it.
C3_FirstKeepsBase ==
    \A k \in 1..Len(rules) :
        IF \A j \in 1..(k - 1) : BaseIdOf(j) # BaseIdOf(k)
        THEN rules[k].id = BaseIdOf(k)
        ELSE \E n \in 1..k :
                 /\ rules[k].id = Suffixed(BaseIdOf(k), n)
                 /\ \A m \in 1..(n - 1) : Suffixed(BaseIdOf(k), m) \in IdsBefore(k)

\* C3 amended: a record whose generated id B is not among the ids emitted
\* before it (as generated or as suffixed ids) is emitted as B; any other
\* record is emitted as B-n for the smallest positive n such that B-n is not
\* among the ids emitted before it.
C3_SmallestFreeSuffix ==
    \A k \in 1..Len(rules) :
        IF BaseIdOf(k) \notin IdsBefore(k)
        THEN rules[k].id = BaseIdOf(k)
        ELSE \E n \in 1..k :
                 /\ rules[k].id = Suffixed(BaseIdOf(k), n)
                 /\ rules[k].id \notin IdsBefore(k)
                 /\ \A m \in 1..(n - 1) : Suffixed(BaseIdOf(k), m) \in IdsBefore(k)

\* C3 witness: a record is the first with its generated id, and that id was
\* already emitted as the suffixed id of an earlier record.
C3_Witness ==
    \E k \in 1..Len(rules) :
        /\ \A j \in 1..(k - 1) : BaseIdOf(j) # BaseIdOf(k)
        /\ BaseIdOf(k) \in IdsBefore(k)
        /\ rules[k].id = Suffixed(BaseIdOf(k), 1)

(***************************************************************************)
(* process_directory on documents made of marker lines and fenced blocks   *)
(***************************************************************************)
\* the most items (marker lines, fenced blocks) a document is made of
MaxItems == 3

\* the lines of a sequence of items, each item a sequence of lines
RECURSIVE ItemLines(_)
ItemLines(items) ==
    IF Len(items) = 0 THEN <<>> ELSE Head(items) \o ItemLines(Tail(items))

\* the documents of at most n items of pool, as text
DocsOf(pool, n) ==
    {Join(ItemLines(items), NL) : items \in UNION {[1..m -> pool] : m \in 0..n}}

\* a directory that holds the one document content
OneFile(content) == <<[name |-> <<"a", ".", "m", "d">>, content |-> content]>>

\* a fenced block of the given lines
Fenced(body) == <<KwFence>> \o body \o <<KwFence>>

\* the lines of the file an emitted record came from
LinesOf(f) == Split(md_files[f].content, NL)

\* every record emitted so far, in the order of emission
Emitted == all_patterns \o patterns

\* line k of ls is not inside a fenced block: fence lines open and close
\* blocks in turn, so an even number of them precedes it
Outside(ls, k) == Cardinality({j \in 1..(k - 1) : IsFence(ls[j])}) % 2 = 0

\* the lines before line b, outside fenced blocks, that start with kw
MarkersBefore(ls, kw, b) ==
    {k \in 1..(b - 1) : Outside(ls, k) /\ StartsWith(Strip(ls[k]), kw)}

\* the text after the colon of marker line k, trimmed
MarkerValue(ls, k) == Strip(AfterColon(Strip(ls[k])))

\* items: marker lines of every field, a CONFIDENCE line that is no integer,
\* a block, a block that holds marker lines, and a fence that is never closed
MetaItems ==
    {<<KwCategory \o <<" ", "a", "u", "t", "h">>>>,
     <<KwSeverity \o <<" ", "H", "i", "g", "h">>>>,
     <<KwConfidence \o <<" ", "9", "0">>>>,
     <<KwConfidence \o <<" ", "x", "9">>>>,
     <<KwHeader \o <<"T", "i", "t", "l", "e">>>>,
     Fenced(<<KwPattern \o <<" ", "r">>>>),
     Fenced(<<KwSeverity \o <<" ", "l", "o", "w">>,
              KwCategory \o <<" ", "i", "n">>,
              KwPattern \o <<" ", "q">>>>),
     <<KwFence>>}

InitMeta == \E content \in DocsOf(MetaItems, MaxItems) : InitSec(OneFile(content))

SpecMeta == InitMeta /\ [][NextSec]_vars

\* C4: every emitted record carries, for category, severity, confidence and
\* description, the value of the last marker line of that field before its
\* block and outside any fenced block (for confidence: the last one whose
\* value is an integer), or the default when there is none.
C4_CarryForward ==
    \A n \in 1..Len(Emitted) :
        LET ls   == LinesOf(origin[n].file)
            b    == origin[n].line
            cat  == MarkersBefore(ls, KwCategory, b)
            sev  == MarkersBefore(ls, KwSeverity, b)
            conf == {k \in MarkersBefore(ls, KwConfidence, b) :
                        ParseInt(MarkerValue(ls, k)).ok}
            desc == MarkersBefore(ls, KwHeader, b)
        IN  /\ Emitted[n].category =
                   IF cat = {} THEN <<>> ELSE MarkerValue(ls, SetMax(cat))
            /\ Emitted[n].severity =
                   IF sev = {} THEN Medium ELSE Lower(MarkerValue(ls, SetMax(sev)))
            /\ Emitted[n].confidence =
                   IF conf = {} THEN 80 ELSE ParseInt(MarkerValue(ls, SetMax(conf))).val
            /\ Emitted[n].description =
                   IF desc = {} THEN <<>>
                   ELSE Strip(SubSeq(Strip(ls[SetMax(desc)]), 5, Len(Strip(ls[SetMax(desc)]))))

\* C4 witness: a record was emitted after a CONFIDENCE line that is no
\* integer, which itself follows one that is, and it carries the earlier
\* value.
C4_Witness ==
    \E n \in 1..Len(Emitted) :
        LET ls   == LinesOf(origin[n].file)
            conf == MarkersBefore(ls, KwConfidence, origin[n].line)
        IN  /\ conf # {}
            /\ ~ParseInt(MarkerValue(ls, SetMax(conf))).ok
            /\ \E k \in conf : ParseInt(MarkerValue(ls, k)).ok
            /\ Emitted[n].confidence = 90

\* items: CWE and OWASP lines that set a list, CWE and OWASP lines whose
\* value is none in several letter cases, and a block
CweItems ==
    {<<KwCwe \o <<" ", "C", "W", "E", "-", "7", "9", ",", " ", "C", "W", "E", "-", "8", "9">>>>,
     <<KwCwe \o <<" ", "N", "o", "n", "e">>>>,
     <<KwCwe \o <<" ", "n", "o", "n", "e">>>>,
     <<KwOwasp \o <<" ", "A", "P", "I", "1">>>>,
     <<KwOwasp \o <<" ", "N", "O", "N", "E">>>>,
     Fenced(<<KwPattern \o <<" ", "r">>>>)}

InitCwe == \E content \in DocsOf(CweItems, MaxItems) : InitSec(OneFile(content))

SpecCwe == InitCwe /\ [][NextSec]_vars

\* C5: a record whose block follows a CWE (OWASP) line with the value none,
\* in any letter case, with no other CWE (OWASP) line in between, has an
\* empty cwe (owasp) list.
C5_NoneClears ==
    \A n \in 1..Len(Emitted) :
        LET ls    == LinesOf(origin[n].file)
            cwe   == MarkersBefore(ls, KwCwe, origin[n].line)
            owasp == MarkersBefore(ls, KwOwasp, origin[n].line)
        IN  /\ (cwe # {} /\ Lower(MarkerValue(ls, SetMax(cwe))) = KwNone)
                   => Emitted[n].cwe = <<>>
            /\ (owasp # {} /\ Lower(MarkerValue(ls, SetMax(owasp))) = KwNone)
                   => Emitted[n].owasp = <<>>

\* items: a block with a regex, a block whose PATTERN: is followed by one
\* space only, a block whose PATTERN: line ends at the colon and is followed
\* by a LANGUAGES line, a block whose only line is PATTERN:, and a block
\* without a PATTERN: line
BlockItems ==
    {Fenced(<<KwPattern \o <<" ", "r">>>>),
     Fenced(<<KwPattern \o <<" ">>>>),
     Fenced(<<KwPattern, KwLanguages \o <<" ", "g", "o">>>>),
     Fenced(<<KwPattern>>),
     Fenced(<<<<"t", "e", "x", "t">>>>)}

InitBlock == \E content \in DocsOf(BlockItems, MaxItems) : InitSec(OneFile(content))

SpecBlock == InitBlock /\ [][NextSec]_vars

\* the fence lines of ls that open a block
Openers(ls) == {k \in 1..Len(ls) : IsFence(ls[k]) /\ Outside(ls, k)}

\* the block opened at line k of ls holds a line with PATTERN: followed by
\* non-blank text on that same line
HasPatternLine(ls, k) ==
    \E j \in (k + 1)..(BlockEnd(ls, k) - 1) :
        \E c \in 1..Len(ls[j]) :
            /\ OccursAt(ls[j], KwPattern, c)
            /\ Strip(SubSeq(ls[j], c + Len(KwPattern), Len(ls[j]))) # <<>>

\* C6: every emitted record has a non-empty regex, and once a document is
\* parsed, a block of it has emitted a record if and only if it holds a line
\* with PATTERN: followed by non-blank text on that same line.
C6_RegexNeverEmpty ==
    /\ \A n \in 1..Len(Emitted) : Emitted[n].regex # <<>>
    /\ \A f \in 1..(fidx - 1) : \A k \in Openers(LinesOf(f)) :
           (\E n \in 1..Len(origin) : origin[n] = [file |-> f, line |-> k])
               <=> HasPatternLine(LinesOf(f), k)

\* items: SEVERITY lines for the five words of the table in lower case,
\* capitalised and in upper case, for a word the table lacks and for no word
\* at all, and a block
SeverityItems ==
    {<<KwSeverity \o <<" ">> \o w>> :
        w \in {Critical, <<"C", "r", "i", "t", "i", "c", "a", "l">>, Upper(Critical),
               High, <<"H", "i", "g", "h">>, Upper(High),
               Medium, <<"M", "e", "d", "i", "u", "m">>, Upper(Medium),
               Low, <<"L", "o", "w">>, Upper(Low),
               Info, <<"I", "n", "f", "o">>, Upper(Info),
               <<"u", "r", "g", "e", "n", "t">>, <<>>}}
        \cup {Fenced(<<KwPattern \o <<" ", "r">>>>)}

\* the most items a document of SEVERITY lines and blocks is made of
MaxSeverityItems == 2

InitSeverity ==
    \E content \in DocsOf(SeverityItems, MaxSeverityItems) : InitSec(OneFile(content))

SpecSeverity == InitSeverity /\ [][NextSec]_vars

\* the SEVERITY value written before the block of the k-th rule, "medium"
\* when none is written
WrittenSeverity(k) ==
    LET ls  == LinesOf(origin[k].file)
        sev == MarkersBefore(ls, KwSeverity, origin[k].line)
    IN  IF sev = {} THEN Medium ELSE MarkerValue(ls, SetMax(sev))

\* w is word in some letter case
CaseVariant(w, word) ==
    Len(w) = Len(word) /\ \A k \in 1..Len(w) : w[k] \in {word[k], UpperChar(word[k])}

\* C8: every rule has the severity the fixed table gives the SEVERITY value
\* written for its block, in any letter case: critical and high give ERROR,
\* medium WARNING, low and info INFO, anything else WARNING.
C8_SeverityTable ==
    \A k \in 1..Len(rules) :
        LET w == WrittenSeverity(k)
        IN  rules[k].severity =
                IF CaseVariant(w, Critical) \/ CaseVariant(w, High) THEN "ERROR"
                ELSE IF CaseVariant(w, Low) \/ CaseVariant(w, Info) THEN "INFO"
                ELSE "WARNING"

\* C8 witness: the run is over and a rule whose block follows `SEVERITY: HIGH`
\* has severity ERROR.
C8_Witness ==
    /\ pc = "done"
    /\ \E k \in 1..Len(output) :
           WrittenSeverity(k) = Upper(High) /\ output[k].severity = "ERROR"

\* the regex of the example block
ExampleRegex == <<"^", "i", "m", "p", "o", "r", "t", " ", "o", "p", "e", "n", "a", "i">>

\* the category of the example block
AiLibrary == <<"a", "i", "-", "l", "i", "b", "r", "a", "r", "y">>

\* items: the marker lines and the block of the example, the same block
\* without its LANGUAGES line, and a heading
ExampleItems ==
    {<<KwCategory \o <<" ">> \o AiLibrary>>,
     <<KwSeverity \o <<" ">> \o Info>>,
     Fenced(<<KwPattern \o <<" ">> \o ExampleRegex, KwLanguages \o <<" ">> \o Python>>),
     Fenced(<<KwPattern \o <<" ">> \o ExampleRegex>>),
     <<KwHeader \o <<"T", "i", "t", "l", "e">>>>}

InitExample == \E content \in DocsOf(ExampleItems, MaxItems) : InitSec(OneFile(content))

SpecExample == InitExample /\ [][NextSec]_vars

\* the k-th rule comes from the example block: PATTERN: ^import openai and
\* LANGUAGES: python under CATEGORY: ai-library and SEVERITY: info
FromExampleBlock(k) ==
    /\ all_patterns[k].regex = ExampleRegex
    /\ all_patterns[k].languages = <<Python>>
    /\ all_patterns[k].category = AiLibrary
    /\ all_patterns[k].severity = Info

DQuote == "\""

KwImportSection == <<"#", "#", " ", "I", "m", "p", "o", "r", "t", " ",
                     "D", "e", "t", "e", "c", "t", "i", "o", "n">>

KwSecretsSection == <<"#", "#", " ", "S", "e", "c", "r", "e", "t", "s", " ",
                      "D", "e", "t", "e", "c", "t", "i", "o", "n">>

KwConfidenceSection == <<"#", "#", " ", "D", "e", "t", "e", "c", "t", "i", "o", "n", " ",
                         "C", "o", "n", "f", "i", "d", "e", "n", "c", "e">>

KwPackageSection == <<"#", "#", " ", "P", "a", "c", "k", "a", "g", "e", " ", "D", "e", "t", "e", "c", "t", "i", "o", "n">>

KwEnvSection == <<"#", "#", " ", "E", "n", "v", "i", "r", "o", "n", "m", "e", "n", "t", " ", "V", "a", "r", "i", "a", "b", "l", "e", "s">>

KwH3Npm == <<"#", "#", "#", " ", "N", "P", "M">>

KwH3Pypi == <<"#", "#", "#", " ", "P", "Y", "P", "I">>

KwH3Python == <<"#", "#", "#", " ", "P", "y", "t", "h", "o", "n">>

KwH3Javascript == <<"#", "#", "#", " ", "J", "a", "v", "a", "s", "c", "r", "i", "p", "t">>

KwH3Go == <<"#", "#", "#", " ", "G", "o">>

KwH4 == <<"#", "#", "#", "#">>

KwBoldPattern == <<"*", "*", "P", "a", "t", "t", "e", "r", "n", "*", "*", ":">>

KwBoldSeverity == <<"*", "*", "S", "e", "v", "e", "r", "i", "t", "y", "*", "*", ":">>

KwBoldCategory == <<"*", "*", "C", "a", "t", "e", "g", "o", "r", "y", "*", "*", ":">>

KwImport == <<"i", "m", "p", "o", "r", "t">>

KwSecret == <<"s", "e", "c", "r", "e", "t">>

KwQuoteClass == <<"[", "'", DQuote, "]">>

KwEscParen == <<"\\", "(">>

KwCallArgs == <<"(", ".", ".", ".", ")">>

\* the confidence of an import rule when the descriptor states none
DefaultImportConfidence == 90

\* the confidence of every secret rule
SecretConfidence == 95

\* \w for the characters of the model's alphabet
IsWord(c) == c \in Range(LC) \/ c \in Range(UC) \/ c \in Range(DIGITS) \/ c = "_"

\* where a greedy \s* that starts at position a ends: the first position
\* >= a that holds no white space, Len(s) + 1 when there is none
WsEnd(s, a) ==
    LET non == {k \in a..Len(s) : ~IsSpace(s[k])}
    IN  IF non = {} THEN Len(s) + 1 ELSE SetMin(non)

\* the first position >= a of s that holds c, 0 when there is none
NextChar(s, c, a) ==
    LET at == {k \in a..Len(s) : s[k] = c}
    IN  IF at = {} THEN 0 ELSE SetMin(at)

\* the lookahead (?=\n## [^I]|\Z) of _parse_imports, at position e
StopImports(s, e) ==
    OccursAt(s, <<NL, "#", "#", " ">>, e) /\ e + 4 <= Len(s) /\ s[e + 4] # "I"

\* the lookahead (?=\n## [^S#]|\Z) of _parse_secrets, at position e
StopSecrets(s, e) ==
    OccursAt(s, <<NL, "#", "#", " ">>, e) /\ e + 4 <= Len(s) /\ s[e + 4] \notin {"S", "#"}

\* the lookaheads (?=\n##|\Z) and (?=\n###|\n##|\Z), at position e
StopHeading(s, e) == OccursAt(s, <<NL, "#", "#">>, e)

\* the lookahead that ends a section body, by the name of its section regex
StopAt(lookahead, s, e) ==
    IF lookahead = "imports" THEN StopImports(s, e)
    ELSE IF lookahead = "secrets" THEN StopSecrets(s, e)
    ELSE StopHeading(s, e)

\* group 1 of heading + r'\s*\n(.*?)(?=lookahead|\Z)' with re.DOTALL, as
\* [found, text]: the leftmost heading followed by white space that holds a
\* newline; the greedy \s* leaves the last newline of that white space to \n;
\* the lazy group ends at the first position where the lookahead holds
SectionBody(s, heading, lookahead) ==
    LET nls(p) == {k \in (p + Len(heading))..(WsEnd(s, p + Len(heading)) - 1) : s[k] = NL}
        hits   == {p \in 1..Len(s) : OccursAt(s, heading, p) /\ nls(p) # {}}
    IN  IF hits = {} THEN [found |-> FALSE, text |-> <<>>]
        ELSE LET g == SetMax(nls(SetMin(hits))) + 1
                 e == SetMin({k \in g..(Len(s) + 1) : k = Len(s) + 1 \/ StopAt(lookahead, s, k)})
             IN  [found |-> TRUE, text |-> SubSeq(s, g, e - 1)]

\* group 1 of heading + r'.*?\n(.*?)(?=\n###|\n##|\Z)' with re.DOTALL, as
\* [found, text]: the leftmost heading with a newline after it; the group
\* starts after the first such newline
SubSectionBody(s, heading) ==
    LET hits == {p \in 1..Len(s) : OccursAt(s, heading, p)
                                     /\ NextChar(s, NL, p + Len(heading)) # 0}
    IN  IF hits = {} THEN [found |-> FALSE, text |-> <<>>]
        ELSE LET g == NextChar(s, NL, SetMin(hits) + Len(heading)) + 1
                 e == SetMin({k \in g..(Len(s) + 1) : k = Len(s) + 1 \/ StopHeading(s, k)})
             IN  [found |-> TRUE, text |-> SubSeq(s, g, e - 1)]

\* the match that starts first among the matches ms, none when no element
\* of ms is a match
First(ms, none) ==
    IF \A m \in ms : ~m.ok THEN none
    ELSE CHOOSE m \in ms : m.ok /\ \A o \in ms : o.ok => m.at <= o.at

\* no match of \*\*Pattern\*\*:\s*`([^`]+)`
NoPattern == [ok |-> FALSE, at |-> 0, text |-> <<>>, last |-> 0]

\* \*\*Pattern\*\*:\s*`([^`]+)` with the opening backquote at position t and
\* the first backquote after it at position u (0 when there is none), as
\* [ok, at, text, last]: text is group 1
TickCode(s, q, t, u) ==
    IF t <= Len(s) /\ s[t] = Backtick /\ u >= t + 2
    THEN [ok |-> TRUE, at |-> q, text |-> SubSeq(s, t + 1, u - 1), last |-> u]
    ELSE NoPattern

\* \*\*Pattern\*\*:\s*`([^`]+)` matched at position q
PatternField(s, q) ==
    IF ~OccursAt(s, KwBoldPattern, q) THEN NoPattern
    ELSE TickCode(s, q, WsEnd(s, q + Len(KwBoldPattern)),
                  NextChar(s, Backtick, WsEnd(s, q + Len(KwBoldPattern)) + 1))

RECURSIVE PatternTicks(_, _)

\* group 1 of the match m, and the matches after it
TicksFrom(s, m) ==
    IF ~m.ok THEN <<>> ELSE <<m.text>> \o PatternTicks(s, m.last + 1)

\* re.findall(r'\*\*Pattern\*\*:\s*`([^`]+)`', s) from position from on
PatternTicks(s, from) ==
    TicksFrom(s, First({PatternField(s, q) : q \in from..Len(s)}, NoPattern))

\* no match of \*\*Severity\*\*:\s*(\w+)
NoSeverity == [ok |-> FALSE, at |-> 0, word |-> <<>>, last |-> 0]

\* \*\*Severity\*\*:\s*(\w+) matched at position v, as [ok, at, word, last]
SeverityAt(s, v) ==
    IF ~OccursAt(s, KwBoldSeverity, v) THEN NoSeverity
    ELSE LET t    == WsEnd(s, v + Len(KwBoldSeverity))
             stop == {k \in t..Len(s) : ~IsWord(s[k])}
         IN  IF t <= Len(s) /\ IsWord(s[t])
             THEN [ok |-> TRUE, at |-> v, word |-> SubSeq(s, t, SetMin(stop \cup {Len(s) + 1}) - 1),
                   last |-> SetMin(stop \cup {Len(s) + 1}) - 1]
             ELSE NoSeverity

\* .*?\*\*Severity\*\*:\s*(\w+) with re.DOTALL from position a: the first
\* Severity field at or after a
FirstSeverity(s, a) == First({SeverityAt(s, v) : v \in a..Len(s)}, NoSeverity)

\* no match of the two fields of a secret
NoFields == [ok |-> FALSE, at |-> 0, pattern |-> <<>>, severity |-> <<>>, last |-> 0]

\* the Pattern field c with the Severity field w that follows it
WithSeverity(c, w) ==
    [ok |-> w.ok, at |-> c.at, pattern |-> c.text, severity |-> w.word, last |-> w.last]

\* \*\*Pattern\*\*:\s*`([^`]+)`.*?\*\*Severity\*\*:\s*(\w+) with re.DOTALL, the
\* Pattern field being the match c
FieldsOf(s, c) ==
    IF ~c.ok THEN NoFields ELSE WithSeverity(c, FirstSeverity(s, c.last + 1))

\* .*?\*\*Pattern\*\*:\s*`([^`]+)`.*?\*\*Severity\*\*:\s*(\w+) with re.DOTALL
\* matched from position from, as [ok, at, pattern, severity, last]: the first
\* Pattern field at or after from that some Severity field follows, and the
\* first Severity field after it, whatever lies in between
SecretFields(s, from) ==
    First({FieldsOf(s, PatternField(s, q)) : q \in from..Len(s)}, NoFields)

\* no match of the regex of _parse_secrets
NoSecret ==
    [ok |-> FALSE, at |-> 0, name |-> <<>>, pattern |-> <<>>, severity |-> <<>>, last |-> 0]

\* the name that starts at position g with the fields f that follow its line;
\* it is ranked by -g, so that the first of such matches is the one whose name
\* starts last
Named(g, name, f) ==
    [ok |-> f.ok, at |-> 0 - g, name |-> name, pattern |-> f.pattern,
     severity |-> f.severity, last |-> f.last]

\* (.+?)\n and the rest of the regex of _parse_secrets with the name starting
\* at position g, n being the first newline after position g (0 when there is
\* none): the lazy name runs to that newline
SecretFrom(s, g, n) ==
    IF g > Len(s) \/ n = 0 THEN NoSecret
    ELSE Named(g, SubSeq(s, g, n - 1), SecretFields(s, n + 1))

\* the match m, as a match that starts at position p
StartingAt(m, p) == [m EXCEPT !.at = IF m.ok THEN p ELSE 0]

\* the whole regex of _parse_secrets matched at the #### at position p, as
\* [ok, at, name, pattern, severity, last]: \s* is greedy and gives characters
\* back while the rest fails, so the name starts at the last position of the
\* white space after #### (or the one after it) from which the rest matches
SecretAt(s, p) ==
    IF ~OccursAt(s, KwH4, p) THEN NoSecret
    ELSE StartingAt(First({SecretFrom(s, g, NextChar(s, NL, g + 1)) :
                              g \in (p + Len(KwH4))..WsEnd(s, p + Len(KwH4))}, NoSecret), p)

RECURSIVE SecretBlocks(_, _)

\* the match m of the regex of _parse_secrets appended as {name.strip(),
\* pattern.strip(), severity.strip().upper()}, and the matches after it
SecretEntries(s, m) ==
    IF ~m.ok THEN <<>>
    ELSE <<[name     |-> Strip(m.name),
            pattern  |-> Strip(m.pattern),
            severity |-> Upper(Strip(m.severity))]>>
             \o SecretBlocks(s, m.last + 1)

\* re.findall of _parse_secrets from position from on: the leftmost match,
\* then the matches after its end
SecretBlocks(s, from) ==
    SecretEntries(s, First({SecretAt(s, p) : p \in from..Len(s)}, NoSecret))

\* PatternParser._parse_secrets
parse_secrets(content) ==
    LET secrets_section == SectionBody(content, KwSecretsSection, "secrets")
    IN  IF ~secrets_section.found THEN <<>> ELSE SecretBlocks(secrets_section.text, 1)

\* PatternParser._parse_imports
\* a match of r'^-\s*`([^`]+)`' with re.MULTILINE that starts at q, the back
\* tick being at t and the closing one at u: q starts a line and holds the
\* hyphen, the white space after it ends at the back tick, and at least one
\* character stands between the back ticks
ListCode(s, q, t, u) ==
    IF (q = 1 \/ s[q - 1] = NL) /\ s[q] = "-" /\ t <= Len(s) /\ s[t] = Backtick /\ u >= t + 2
    THEN [ok |-> TRUE, at |-> q, text |-> SubSeq(s, t + 1, u - 1), last |-> u]
    ELSE NoPattern

ListItem(s, q) == ListCode(s, q, WsEnd(s, q + 1), NextChar(s, Backtick, WsEnd(s, q + 1) + 1))

\* re.findall(r'^-\s*`([^`]+)`', s, re.MULTILINE) from position from on
RECURSIVE ListTicks(_, _)
ListFrom(s, m) ==
    IF ~m.ok THEN <<>> ELSE <<m.text>> \o ListTicks(s, m.last + 1)

ListTicks(s, from) ==
    ListFrom(s, First({ListItem(s, q) : q \in from..Len(s)}, NoPattern))

\* the packages of one ecosystem: the list items of its sub-section of the
\* section, [] when the section or the sub-section is not found
PackagesOf(pkg_section, sub_match) ==
    IF pkg_section.found /\ sub_match.found THEN ListTicks(sub_match.text, 1) ELSE <<>>

\* PatternParser._parse_packages: data['packages']
PackagesIn(pkg_section) ==
    [npm      |-> PackagesOf(pkg_section, SubSectionBody(pkg_section.text, KwH3Npm)),
     pypi     |-> PackagesOf(pkg_section, SubSectionBody(pkg_section.text, KwH3Pypi)),
     go       |-> PackagesOf(pkg_section, SubSectionBody(pkg_section.text, KwH3Go)),
     rubygems |-> <<>>,
     maven    |-> <<>>]

parse_packages(content) == PackagesIn(SectionBody(content, KwPackageSection, "heading"))

\* PatternParser._parse_env_vars: data['env_vars']
EnvVarsIn(env_section) ==
    IF env_section.found THEN ListTicks(env_section.text, 1) ELSE <<>>

parse_env_vars(content) == EnvVarsIn(SectionBody(content, KwEnvSection, "heading"))

parse_imports(content) ==
    LET import_section == SectionBody(content, KwImportSection, "imports")
        section  == import_section.text
        py_match == SubSectionBody(section, KwH3Python)
        js_match == SubSectionBody(section, KwH3Javascript)
        go_match == SectionBody(section, KwH3Go, "heading")
        found(m) == IF import_section.found /\ m.found THEN PatternTicks(m.text, 1) ELSE <<>>
    IN  [python     |-> found(py_match),
         javascript |-> found(js_match),
         go         |-> found(go_match),
         ruby       |-> <<>>,
         java       |-> <<>>]

\* \*\*([^*]+)\*\*:\s*(\d+)% matched at position p, as [ok, name, score, last]
ConfidenceAt(s, p) ==
    LET n     == NextChar(s, "*", p + 2)
        t     == WsEnd(s, n + 3)
        stop  == {k \in t..Len(s) : s[k] \notin Range(DIGITS)}
        after == IF stop = {} THEN Len(s) + 1 ELSE SetMin(stop)
    IN  IF /\ OccursAt(s, <<"*", "*">>, p)
           /\ n >= p + 3
           /\ OccursAt(s, <<"*", "*", ":">>, n)
           /\ after > t
           /\ after <= Len(s)
           /\ s[after] = "%"
        THEN [ok |-> TRUE, name |-> SubSeq(s, p + 2, n - 1),
              score |-> DigitsValue(SubSeq(s, t, after - 1)), last |-> after]
        ELSE [ok |-> FALSE, name |-> <<>>, score |-> 0, last |-> 0]

\* name.strip().lower().replace(' ', '_')
ConfidenceKey(name) ==
    LET n == Lower(Strip(name))
    IN  [k \in 1..Len(n) |-> IF n[k] = " " THEN "_" ELSE n[k]]

\* the loop over re.findall of _parse_confidence from position from on: conf
\* with each match stored under its key, a later match replacing an earlier
RECURSIVE ConfidenceScores(_, _, _)
ConfidenceScores(s, from, conf) ==
    LET hits == {p \in from..Len(s) : ConfidenceAt(s, p).ok}
    IN  IF hits = {} THEN conf
        ELSE LET m == ConfidenceAt(s, SetMin(hits))
             IN  ConfidenceScores(s, m.last + 1, (ConfidenceKey(m.name) :> m.score) @@ conf)

\* PatternParser._parse_confidence
parse_confidence(content) ==
    LET conf_section == SectionBody(content, KwConfidenceSection, "heading")
    IN  IF ~conf_section.found THEN <<>> ELSE ConfidenceScores(conf_section.text, 1, <<>>)

\* the name PatternParser._parse takes from the first line that starts '# '
parse_name(content) ==
    LET ls    == Split(content, NL)
        heads == {k \in 1..Len(ls) : StartsWith(ls[k], <<"#", " ">>)}
    IN  IF heads = {} THEN <<>>
        ELSE Strip(SubSeq(ls[SetMin(heads)], 3, Len(ls[SetMin(heads)])))

\* the category PatternParser._parse takes from the first **Category**: line
parse_category(content) ==
    LET cat_match == KwSearch(KwBoldCategory, content)
    IN  IF cat_match.found THEN Strip(cat_match.group) ELSE <<>>

\* PatternParser(file).data, for the fields convert_technology reads
ParserData(content) ==
    [name       |-> parse_name(content),
     category   |-> parse_category(content),
     packages   |-> parse_packages(content),
     env_vars   |-> parse_env_vars(content),
     imports    |-> parse_imports(content),
     secrets    |-> parse_secrets(content),
     confidence |-> parse_confidence(content)]

\* Optional[str]: None
NoneStr == [some |-> FALSE, text |-> <<>>]

\* Optional[str]: a str
Some(text) == [some |-> TRUE, text |-> text]

\* group 1 of re.match(r'\^from\s+(\S+)\s+import', pattern), as Optional[str]
FromImportModule(pattern) ==
    LET a    == Len(<<"^", "f", "r", "o", "m">>) + 1
        m    == WsEnd(pattern, a)
        sp   == {k \in m..Len(pattern) : IsSpace(pattern[k])}
        mEnd == IF sp = {} THEN Len(pattern) + 1 ELSE SetMin(sp)
        imp  == WsEnd(pattern, mEnd)
    IN  IF /\ StartsWith(pattern, <<"^", "f", "r", "o", "m">>)
           /\ m > a
           /\ mEnd > m
           /\ imp > mEnd
           /\ OccursAt(pattern, KwImport, imp)
        THEN Some(SubSeq(pattern, m, mEnd - 1))
        ELSE NoneStr

\* group 1 of re.search(lead + r"([^[]+)\['\"\]", pattern), as Optional[str],
\* for the literal text lead
QuotedModule(pattern, lead) ==
    LET close(p) == NextChar(pattern, "[", p + Len(lead))
        hits == {p \in 1..Len(pattern) :
                    /\ OccursAt(pattern, lead, p)
                    /\ close(p) > p + Len(lead)
                    /\ OccursAt(pattern, KwQuoteClass, close(p))}
    IN  IF hits = {} THEN NoneStr
        ELSE Some(SubSeq(pattern, SetMin(hits) + Len(lead), close(SetMin(hits)) - 1))

\* group 1 of re.search(r'"([^"]+)"', pattern), as Optional[str]
QuotedPath(pattern) ==
    LET close(p) == NextChar(pattern, DQuote, p + 1)
        hits == {p \in 1..Len(pattern) : pattern[p] = DQuote /\ close(p) >= p + 2}
    IN  IF hits = {} THEN NoneStr
        ELSE Some(SubSeq(pattern, SetMin(hits) + 1, close(SetMin(hits)) - 1))

\* the `if language == 'python'` part of regex_to_semgrep
PythonPattern(pattern) ==
    IF StartsWith(pattern, <<"^", "i", "m", "p", "o", "r", "t", " ">>)
    THEN Some(<<"i", "m", "p", "o", "r", "t", " ">> \o SubSeq(pattern, 9, Len(pattern)))
    ELSE IF /\ StartsWith(pattern, <<"^", "f", "r", "o", "m", " ">>)
            /\ Contains(pattern, KwImport)
            /\ FromImportModule(pattern).some
    THEN Some(<<"f", "r", "o", "m", " ">> \o FromImportModule(pattern).text
                  \o <<" ", "i", "m", "p", "o", "r", "t", " ", "$", "X">>)
    ELSE IF Contains(pattern, <<"|">>)
    THEN NoneStr
    ELSE IF EndsWith(pattern, KwEscParen)
    THEN Some(SubSeq(pattern, 1, Len(pattern) - 2) \o KwCallArgs)
    ELSE NoneStr

\* the `if language in ('javascript', 'typescript')` part of regex_to_semgrep
JavascriptPattern(pattern) ==
    LET fromLead    == <<"f", "r", "o", "m", " ">> \o KwQuoteClass
        requireLead == <<"r", "e", "q", "u", "i", "r", "e">> \o KwEscParen \o KwQuoteClass
    IN  IF Contains(pattern, fromLead) /\ QuotedModule(pattern, fromLead).some
        THEN Some(<<"i", "m", "p", "o", "r", "t", " ", "$", "X", " ", "f", "r", "o", "m", " ", DQuote>>
                      \o QuotedModule(pattern, fromLead).text \o <<DQuote>>)
        ELSE IF Contains(pattern, requireLead) /\ QuotedModule(pattern, requireLead).some
        THEN Some(<<"r", "e", "q", "u", "i", "r", "e", "(", DQuote>>
                      \o QuotedModule(pattern, requireLead).text \o <<DQuote, ")">>)
        ELSE IF StartsWith(pattern, <<"n", "e", "w", " ">>) /\ EndsWith(pattern, KwEscParen)
        THEN Some(<<"n", "e", "w", " ">> \o SubSeq(pattern, 5, Len(pattern) - 2) \o KwCallArgs)
        ELSE NoneStr

\* the `if language == 'go'` part of regex_to_semgrep
GoPattern(pattern) ==
    IF Contains(pattern, KwImport) /\ QuotedPath(pattern).some
    THEN Some(<<"i", "m", "p", "o", "r", "t", " ", DQuote>> \o QuotedPath(pattern).text
                  \o <<DQuote>>)
    ELSE NoneStr

\* regex_to_semgrep
regex_to_semgrep(regex_pattern, language) ==
    IF language = Python /\ PythonPattern(regex_pattern).some
    THEN PythonPattern(regex_pattern)
    ELSE IF language \in {Javascript, Typescript} /\ JavascriptPattern(regex_pattern).some
    THEN JavascriptPattern(regex_pattern)
    ELSE IF language = Go
    THEN GoPattern(regex_pattern)
    ELSE NoneStr

\* the keys of data['imports'], in the order convert_technology visits them
ImportLanguages == <<Python, Javascript, Go, Ruby, Java>>

\* data['imports'][lang]
ImportsOf(parser_data, lang) ==
    IF lang = Python THEN parser_data.imports.python
    ELSE IF lang = Javascript THEN parser_data.imports.javascript
    ELSE IF lang = Go THEN parser_data.imports.go
    ELSE IF lang = Ruby THEN parser_data.imports.ruby
    ELSE parser_data.imports.java

\* the native patterns of the regexes of one language, in order, the regexes
\* regex_to_semgrep gives nothing (or an empty string) for left out
RECURSIVE Translated(_, _)
Translated(regexes, lang) ==
    IF Len(regexes) = 0 THEN <<>>
    ELSE LET semgrep_pattern == regex_to_semgrep(Head(regexes), lang)
         IN  (IF semgrep_pattern.some /\ semgrep_pattern.text # <<>>
              THEN <<semgrep_pattern.text>> ELSE <<>>)
                 \o Translated(Tail(regexes), lang)

\* re.sub(r'[^a-z0-9]+', '-', data['name'].lower()).strip('-')
TechId(parser_data) == StripHyphen(SubNonAlnum(Lower(parser_data.name)))

\* ImportRule with the native patterns always stored as a pattern-either list
ImportRuleAlwaysEither(parser_data, base_id, lang, pats) ==
    [id        |-> base_id \o <<".">> \o TechId(parser_data) \o <<".", "i", "m", "p", "o", "r", "t", ".">> \o lang,
     message   |-> parser_data.name \o <<" ", "l", "i", "b", "r", "a", "r", "y", " ", "i", "m", "p", "o", "r", "t",
                                  " ", "d", "e", "t", "e", "c", "t", "e", "d">>,
     severity  |-> "INFO",
     languages |-> <<lang>>,
     metadata  |-> [technology     |-> parser_data.name,
                    category       |-> IF parser_data.category # <<>> THEN parser_data.category
                                       ELSE <<"u", "n", "k", "n", "o", "w", "n">>,
                    detection_type |-> "import",
                    confidence     |->
                        IF <<"i", "m", "p", "o", "r", "t", "_", "d", "e", "t", "e", "c", "t", "i", "o", "n">>
                               \in DOMAIN parser_data.confidence
                        THEN parser_data.confidence[<<"i", "m", "p", "o", "r", "t", "_", "d", "e", "t", "e", "c",
                                               "t", "i", "o", "n">>]
                        ELSE DefaultImportConfidence]]
        @@ ("pattern-either" :> [k \in 1..Len(pats) |-> [pattern |-> pats[k]]])

\* the rule convert_technology builds for the native patterns of one language
\* an import rule that carries the first native pattern beside the list
ImportRuleBothKeys(parser_data, base_id, lang, pats) ==
    ImportRuleAlwaysEither(parser_data, base_id, lang, pats) @@ ("pattern" :> pats[1])

ImportRule(parser_data, base_id, lang, pats) ==
    [id        |-> base_id \o <<".">> \o TechId(parser_data) \o <<".", "i", "m", "p", "o", "r", "t", ".">> \o lang,
     message   |-> parser_data.name \o <<" ", "l", "i", "b", "r", "a", "r", "y", " ", "i", "m", "p", "o", "r", "t",
                                  " ", "d", "e", "t", "e", "c", "t", "e", "d">>,
     severity  |-> "INFO",
     languages |-> <<lang>>,
     metadata  |-> [technology     |-> parser_data.name,
                    category       |-> IF parser_data.category # <<>> THEN parser_data.category
                                       ELSE <<"u", "n", "k", "n", "o", "w", "n">>,
                    detection_type |-> "import",
                    confidence     |->
                        IF <<"i", "m", "p", "o", "r", "t", "_", "d", "e", "t", "e", "c", "t", "i", "o", "n">>
                               \in DOMAIN parser_data.confidence
                        THEN parser_data.confidence[<<"i", "m", "p", "o", "r", "t", "_", "d", "e", "t", "e", "c",
                                               "t", "i", "o", "n">>]
                        ELSE DefaultImportConfidence]]
        @@ (IF Len(pats) = 1 THEN ("pattern" :> pats[1])
            ELSE ("pattern-either" :> [k \in 1..Len(pats) |-> [pattern |-> pats[k]]]))

\* the import rules of a descriptor: one per language, in the order of
\* ImportLanguages, for the languages with a native pattern
RECURSIVE ImportRules(_, _, _)
ImportRules(parser_data, base_id, langs) ==
    IF Len(langs) = 0 THEN <<>>
    ELSE LET pats == Translated(ImportsOf(parser_data, Head(langs)), Head(langs))
         IN  (IF pats = <<>> THEN <<>> ELSE <<ImportRule(parser_data, base_id, Head(langs), pats)>>)
                 \o ImportRules(parser_data, base_id, Tail(langs))

\* severity_map.get(secret['severity'], 'WARNING') of convert_technology
SecretSeverity(severity) ==
    IF severity = Upper(Critical) THEN "ERROR"
    ELSE IF severity = Upper(High) THEN "WARNING"
    ELSE IF severity = Upper(Medium) THEN "WARNING"
    ELSE IF severity = Upper(Low) THEN "INFO"
    ELSE "WARNING"

\* the rule convert_technology builds for one entry of data['secrets']
SecretRule(parser_data, base_id, secret) ==
    [id        |-> base_id \o <<".">> \o TechId(parser_data) \o <<".", "s", "e", "c", "r", "e", "t", ".">>
                       \o SubNonAlnum(Lower(secret.name)),
     message   |-> <<"P", "o", "t", "e", "n", "t", "i", "a", "l", " ">> \o parser_data.name \o <<" ">>
                       \o secret.name \o <<" ", "e", "x", "p", "o", "s", "e", "d">>,
     severity  |-> SecretSeverity(secret.severity),
     languages |-> <<Generic>>,
     metadata  |-> [technology  |-> parser_data.name,
                    category    |-> <<"s", "e", "c", "r", "e", "t", "s">>,
                    secret_type |-> secret.name,
                    confidence  |-> SecretConfidence]]
        @@ ("pattern-regex" :> secret.pattern)

\* convert_technology: nothing for a descriptor without a name, else the
\* import rules followed by one rule per secret
convert_technology(parser_data, base_id) ==
    IF parser_data.name = <<>> THEN <<>>
    ELSE ImportRules(parser_data, base_id, ImportLanguages)
             \o [k \in 1..Len(parser_data.secrets) |-> SecretRule(parser_data, base_id, parser_data.secrets[k])]

\* str(rel_path.parent).replace('/', '.').replace('\\', '.')
PathBaseId(dir) == [k \in 1..Len(dir) |-> IF dir[k] \in {"/", "\\"} THEN "." ELSE dir[k]]

\* the loop that files each rule of a descriptor: into `secrets` when its id
\* holds the text 'secret', into `tech-discovery` otherwise
RECURSIVE Routed(_, _)
Routed(buckets, new_rules) ==
    IF Len(new_rules) = 0 THEN buckets
    ELSE LET rule   == Head(new_rules)
             bucket == IF Contains(rule.id, KwSecret) THEN "secrets" ELSE "tech-discovery"
         IN  Routed([buckets EXCEPT ![bucket] = Append(@, rule)], Tail(new_rules))

\* process_rag_directory up to the loop over pattern_files, the reads of the
\* files at the positions raises being the ones that raise
TechStart(files, raises) ==
    /\ pattern_files = files
    /\ pf_raises = raises
    /\ pfi = 1
    /\ data = EmptyData
    /\ all_rules = EmptyBuckets
    /\ written = <<>>
    /\ tpc = "files"

\* process_rag_directory up to the loop over pattern_files, every file
\* readable
InitTech(files) ==
    /\ TechStart(files, {})
    /\ FnIdle

\* rag-security-to-semgrep.py is not running
SecIdle ==
    /\ md_files = <<>>
    /\ md_raises = {}
    /\ fidx = 1
    /\ lines = <<>>
    /\ i = 1
    /\ current_meta = MetaDefault
    /\ patterns = <<>>
    /\ all_patterns = <<>>
    /\ origin = <<>>
    /\ ci = 0
    /\ rules = <<>>
    /\ seen_ids = {}
    /\ output = <<>>
    /\ pc = "idle"

\* parser = PatternParser(str(pf)) for the next file; when the read raises,
\* the except branch passes to the file after it
ParseDescriptor ==
    /\ tpc = "files"
    /\ pfi <= Len(pattern_files)
    /\ IF pfi \in pf_raises
       THEN /\ pfi' = pfi + 1
            /\ UNCHANGED <<data, tpc>>
       ELSE /\ data' = ParserData(pattern_files[pfi].content)
            /\ tpc' = "convert"
            /\ UNCHANGED pfi
    /\ UNCHANGED <<pattern_files, pf_raises, all_rules, written>>
    /\ UNCHANGED secVars
    /\ UNCHANGED fnVars

\* rules = convert_technology(parser, f"gibson.{base_id}") and the loop that
\* files them into the buckets
ConvertDescriptor ==
    /\ tpc = "convert"
    /\ all_rules' =
           Routed(all_rules,
                  convert_technology(data, <<"g", "i", "b", "s", "o", "n", ".">>
                                               \o PathBaseId(pattern_files[pfi].dir)))
    /\ pfi' = pfi + 1
    /\ tpc' = "files"
    /\ UNCHANGED <<pattern_files, pf_raises, data, written>>
    /\ UNCHANGED secVars
    /\ UNCHANGED fnVars

\* the loop over pattern_files is over: every bucket that holds a rule is
\* written to its file
WriteBuckets ==
    /\ tpc = "files"
    /\ pfi > Len(pattern_files)
    /\ written' = [b \in {c \in DOMAIN all_rules : all_rules[c] # <<>>} |-> all_rules[b]]
    /\ tpc' = "done"
    /\ UNCHANGED <<pattern_files, pf_raises, pfi, data, all_rules>>
    /\ UNCHANGED secVars
    /\ UNCHANGED fnVars

\* gibson.tech-debt.todo
TodoRule ==
    [id        |-> <<"g", "i", "b", "s", "o", "n", ".", "t", "e", "c", "h", "-", "d", "e", "b", "t", ".", "t", "o", "d", "o">>,
     message   |-> <<"T", "O", "D", "O", " ", "m", "a", "r", "k", "e", "r", " ", "f", "o", "u", "n", "d", ":", " ", "$", "M", "S", "G">>,
     severity  |-> "INFO",
     languages |-> <<Generic>>,
     metadata  |-> [category  |-> <<"t", "e", "c", "h", "-", "d", "e", "b", "t">>,
                    debt_type |-> <<"t", "o", "d", "o">>,
                    priority  |-> <<"l", "o", "w">>]]
        @@ ("pattern-regex" :> <<"T", "O", "D", "O", "[", ":", "\\", "s", "]", "+", "(", ".", "+", "?", ")", "(", "?", ":", "\\", "n", "|", "$", ")">>)

\* gibson.tech-debt.fixme
FixmeRule ==
    [id        |-> <<"g", "i", "b", "s", "o", "n", ".", "t", "e", "c", "h", "-", "d", "e", "b", "t", ".", "f", "i", "x", "m", "e">>,
     message   |-> <<"F", "I", "X", "M", "E", " ", "m", "a", "r", "k", "e", "r", " ", "f", "o", "u", "n", "d", ":", " ", "$", "M", "S", "G">>,
     severity  |-> "WARNING",
     languages |-> <<Generic>>,
     metadata  |-> [category  |-> <<"t", "e", "c", "h", "-", "d", "e", "b", "t">>,
                    debt_type |-> <<"f", "i", "x", "m", "e">>,
                    priority  |-> <<"m", "e", "d", "i", "u", "m">>]]
        @@ ("pattern-regex" :> <<"F", "I", "X", "M", "E", "[", ":", "\\", "s", "]", "+", "(", ".", "+", "?", ")", "(", "?", ":", "\\", "n", "|", "$", ")">>)

\* gibson.tech-debt.hack
HackRule ==
    [id        |-> <<"g", "i", "b", "s", "o", "n", ".", "t", "e", "c", "h", "-", "d", "e", "b", "t", ".", "h", "a", "c", "k">>,
     message   |-> <<"H", "A", "C", "K", " ", "m", "a", "r", "k", "e", "r", " ", "f", "o", "u", "n", "d">>,
     severity  |-> "WARNING",
     languages |-> <<Generic>>,
     metadata  |-> [category  |-> <<"t", "e", "c", "h", "-", "d", "e", "b", "t">>,
                    debt_type |-> <<"h", "a", "c", "k">>,
                    priority  |-> <<"h", "i", "g", "h">>]]
        @@ ("pattern-regex" :> <<"H", "A", "C", "K", "[", ":", "\\", "s", "]", "+", "(", ".", "+", "?", ")", "(", "?", ":", "\\", "n", "|", "$", ")">>)

\* gibson.tech-debt.xxx
XxxRule ==
    [id        |-> <<"g", "i", "b", "s", "o", "n", ".", "t", "e", "c", "h", "-", "d", "e", "b", "t", ".", "x", "x", "x">>,
     message   |-> <<"X", "X", "X", " ", "m", "a", "r", "k", "e", "r", " ", "f", "o", "u", "n", "d", " ", "(", "n", "e", "e", "d", "s", " ", "a", "t", "t", "e", "n", "t", "i", "o", "n", ")">>,
     severity  |-> "WARNING",
     languages |-> <<Generic>>,
     metadata  |-> [category  |-> <<"t", "e", "c", "h", "-", "d", "e", "b", "t">>,
                    debt_type |-> <<"x", "x", "x">>,
                    priority  |-> <<"h", "i", "g", "h">>]]
        @@ ("pattern-regex" :> <<"X", "X", "X", "[", ":", "\\", "s", "]", "+", "(", ".", "+", "?", ")", "(", "?", ":", "\\", "n", "|", "$", ")">>)

\* gibson.tech-debt.deprecated-decorator
DeprecatedDecoratorRule ==
    [id        |-> <<"g", "i", "b", "s", "o", "n", ".", "t", "e", "c", "h", "-", "d", "e", "b", "t", ".", "d", "e", "p", "r", "e", "c", "a", "t", "e", "d", "-", "d", "e", "c", "o", "r", "a", "t", "o", "r">>,
     message   |-> <<"@", "d", "e", "p", "r", "e", "c", "a", "t", "e", "d", " ", "u", "s", "a", "g", "e", " ", "f", "o", "u", "n", "d">>,
     severity  |-> "INFO",
     languages |-> <<Python, Javascript, Typescript>>,
     metadata  |-> [category  |-> <<"t", "e", "c", "h", "-", "d", "e", "b", "t">>,
                    debt_type |-> <<"d", "e", "p", "r", "e", "c", "a", "t", "e", "d">>,
                    priority  |-> <<"m", "e", "d", "i", "u", "m">>]]
        @@ ("pattern" :> <<"@", "d", "e", "p", "r", "e", "c", "a", "t", "e", "d">>)

\* add_tech_debt_rules: the fixed list rules
TechDebtRules == <<TodoRule, FixmeRule, HackRule, XxxRule, DeprecatedDecoratorRule>>

\* add_tech_debt_rules(output_dir), which main calls after
\* process_rag_directory: tech-debt.yaml is written with the fixed rules
AddTechDebtRules ==
    /\ tpc = "done"
    /\ written' = [b \in DOMAIN written \cup {"tech-debt"} |->
                       IF b = "tech-debt" THEN TechDebtRules ELSE written[b]]
    /\ tpc' = "exit"
    /\ UNCHANGED <<pattern_files, pf_raises, pfi, data, all_rules>>
    /\ UNCHANGED secVars
    /\ UNCHANGED fnVars

NextTech ==
    \/ ParseDescriptor
    \/ ConvertDescriptor
    \/ WriteBuckets
    \/ AddTechDebtRules

\* ---------------------------------------------------------------------------
\* Technology descriptors with a Secrets Detection section
\* ---------------------------------------------------------------------------

\* sub-blocks of a Secrets Detection section: well-formed ones of every
\* severity word, two whose names give the same id text, one with no
\* **Pattern** line and one with no **Severity** line
SecretItems ==
    {<<<<"#", "#", "#", "#", " ", "A", "P", "I", " ", "K", "e", "y">>,
      <<"*", "*", "P", "a", "t", "t", "e", "r", "n", "*", "*", ":", " ", Backtick, "s", "k", "-", "[", "a", "-", "z", "]", "+", Backtick>>,
      <<"*", "*", "S", "e", "v", "e", "r", "i", "t", "y", "*", "*", ":", " ", "c", "r", "i", "t", "i", "c", "a", "l">>>>,
     <<<<"#", "#", "#", "#", " ", "a", "p", "i", "-", "k", "e", "y">>,
      <<"*", "*", "P", "a", "t", "t", "e", "r", "n", "*", "*", ":", " ", Backtick, "k", Backtick>>,
      <<"*", "*", "S", "e", "v", "e", "r", "i", "t", "y", "*", "*", ":", " ", "H", "i", "g", "h">>>>,
     <<<<"#", "#", "#", "#", " ", "T", "o", "k", "e", "n">>,
      <<"*", "*", "P", "a", "t", "t", "e", "r", "n", "*", "*", ":", " ", Backtick, "t", Backtick>>,
      <<"*", "*", "S", "e", "v", "e", "r", "i", "t", "y", "*", "*", ":", " ", "i", "n", "f", "o">>>>,
     <<<<"#", "#", "#", "#", " ", "O", "l", "d">>,
      <<"*", "*", "P", "a", "t", "t", "e", "r", "n", "*", "*", ":", " ", Backtick, "o", Backtick>>,
      <<"*", "*", "S", "e", "v", "e", "r", "i", "t", "y", "*", "*", ":", " ", "m", "e", "d", "i", "u", "m">>>>,
     <<<<"#", "#", "#", "#", " ", "D", "e", "v">>,
      <<"*", "*", "P", "a", "t", "t", "e", "r", "n", "*", "*", ":", " ", Backtick, "d", Backtick>>,
      <<"*", "*", "S", "e", "v", "e", "r", "i", "t", "y", "*", "*", ":", " ", "L", "O", "W">>>>,
     <<<<"#", "#", "#", "#", " ", "C", "e", "r", "t">>,
      <<"*", "*", "S", "e", "v", "e", "r", "i", "t", "y", "*", "*", ":", " ", "l", "o", "w">>>>,
     <<<<"#", "#", "#", "#", " ", "P", "a", "s", "s">>,
      <<"*", "*", "P", "a", "t", "t", "e", "r", "n", "*", "*", ":", " ", Backtick, "p", Backtick>>>>,
     <<<<"#", "#", "#", "#", " ", "O", "d", "d">>,
      <<"*", "*", "P", "a", "t", "t", "e", "r", "n", "*", "*", ":", " ", Backtick, "x", Backtick>>,
      <<"*", "*", "S", "e", "v", "e", "r", "i", "t", "y", "*", "*", ":", " ", "u", "r", "g", "e", "n", "t">>>>}

\* the longest Secrets Detection section, in sub-blocks
MaxSecretItems == 2

\* what a descriptor holds before its Secrets Detection section: the name
\* heading and category, with or without an Import Detection section
DescriptorHeads ==
    {<<<<"#", " ", "O", "p", "e", "n", "A", "I">>,
       <<"*", "*", "C", "a", "t", "e", "g", "o", "r", "y", "*", "*", ":", " ", "a", "i">>>>,
     <<<<"#", " ", "O", "p", "e", "n", "A", "I">>,
       <<"*", "*", "C", "a", "t", "e", "g", "o", "r", "y", "*", "*", ":", " ", "a", "i">>,
       KwImportSection,
       KwH3Python,
       <<"*", "*", "P", "a", "t", "t", "e", "r", "n", "*", "*", ":", " ", Backtick, "^", "i", "m", "p", "o", "r", "t", " ", "o", "p", "e", "n", "a", "i", Backtick>>>>}

SecretDescriptors ==
    {Join(head \o <<KwSecretsSection>> \o ItemLines(items), NL) :
        head \in DescriptorHeads,
        items \in UNION {[1..m -> SecretItems] : m \in 0..MaxSecretItems}}

\* a corpus that holds the one descriptor content, in directory ai/x
OneDescriptor(content) == <<[dir |-> <<"a", "i", "/", "x">>, content |-> content]>>

InitSecrets ==
    /\ SecIdle
    /\ \E content \in SecretDescriptors : InitTech(OneDescriptor(content))

SpecSecrets == InitSecrets /\ [][NextTech]_vars

\* the descriptor parser.data was read from
ParsedFile == IF tpc = "convert" THEN pfi ELSE pfi - 1

\* a descriptor has been parsed
Parsed == tpc = "convert" \/ (tpc \in {"files", "done", "exit"} /\ pfi > 1)

\* the lines of the Secrets Detection section of a descriptor, the heading
\* line left out
SecretsLines(content) ==
    LET ls    == Split(content, NL)
        heads == {k \in 1..Len(ls) : ls[k] = KwSecretsSection}
    IN  IF heads = {} THEN <<>> ELSE SubSeq(ls, SetMin(heads) + 1, Len(ls))

\* the lines of ls that open a sub-block
SubBlockHeads(ls) == {k \in 1..Len(ls) : StartsWith(ls[k], KwH4)}

\* the last line of the sub-block that line k opens
SubBlockLast(ls, k) ==
    LET later == {h \in SubBlockHeads(ls) : h > k}
    IN  IF later = {} THEN Len(ls) ELSE SetMin(later) - 1

\* the **Pattern** lines and the **Severity** lines of the sub-block that
\* line k opens
PatternLinesOf(ls, k) ==
    {j \in k + 1..SubBlockLast(ls, k) :
        /\ StartsWith(ls[j], KwBoldPattern \o <<" ", Backtick>>)
        /\ EndsWith(ls[j], <<Backtick>>)
        /\ Len(ls[j]) > Len(KwBoldPattern) + 3}

SeverityLinesOf(ls, k) ==
    {j \in k + 1..SubBlockLast(ls, k) :
        /\ StartsWith(ls[j], KwBoldSeverity \o <<" ">>)
        /\ Len(ls[j]) > Len(KwBoldSeverity) + 1}

\* the sub-block that line k opens has both fields
WellFormed(ls, k) == PatternLinesOf(ls, k) # {} /\ SeverityLinesOf(ls, k) # {}

\* the sub-block that line k opens, as the entry it stands for
SubBlockEntry(ls, k) ==
    LET p == ls[SetMin(PatternLinesOf(ls, k))]
        v == ls[SetMin(SeverityLinesOf(ls, k))]
    IN  [name     |-> Strip(SubSeq(ls[k], Len(KwH4) + 1, Len(ls[k]))),
         pattern  |-> Strip(SubSeq(p, Len(KwBoldPattern) + 3, Len(p) - 1)),
         severity |-> Upper(SubSeq(v, Len(KwBoldSeverity) + 2, Len(v)))]

\* the entries of the well-formed sub-blocks among the lines `heads` of ls,
\* in the order of the text
RECURSIVE EntriesOf(_, _)
EntriesOf(ls, heads) ==
    IF heads = {} THEN <<>>
    ELSE LET k == SetMin(heads)
         IN  (IF WellFormed(ls, k) THEN <<SubBlockEntry(ls, k)>> ELSE <<>>)
                 \o EntriesOf(ls, heads \ {k})

\* every rule emitted in the run, over all buckets
AllRules == all_rules["tech-discovery"] \o all_rules["secrets"] \o all_rules["tech-debt"]

\* C2: all rules of a run of the technology pipeline have pairwise distinct
\* ids, also when a descriptor lists two secrets sub-blocks of the same name
\* or of names that give the same id text.
C2_TechIdsDistinct ==
    \A a, b \in 1..Len(AllRules) : a # b => AllRules[a].id # AllRules[b].id

\* C7: the secrets the parser extracts from a descriptor are, in order, the
\* entries of exactly the sub-blocks of its Secrets Detection section that
\* hold both a **Pattern** line and a **Severity** line, each with its own
\* name, pattern and upper-cased severity.
C7_WellFormedSubBlocks ==
    Parsed =>
        LET ls == SecretsLines(pattern_files[ParsedFile].content)
        IN  data.secrets = EntriesOf(ls, SubBlockHeads(ls))

\* the rules of the secrets of the descriptor converted last: the last
\* Len(data.secrets) rules of the secrets bucket
LastSecretRule(k) ==
    all_rules["secrets"][Len(all_rules["secrets"]) - Len(data.secrets) + k]

\* C9: every rule made from a secret has the severity the fixed table gives
\* the secret's severity word in any letter case: critical and high give
\* ERROR, medium WARNING, low and info INFO, anything else WARNING.
C9_SecretSeverityTable ==
    (tpc \in {"files", "done", "exit"} /\ pfi > 1) =>
        \A k \in 1..Len(data.secrets) :
            LET w == data.secrets[k].severity
            IN  LastSecretRule(k).severity =
                    IF CaseVariant(w, Critical) \/ CaseVariant(w, High) THEN "ERROR"
                    ELSE IF CaseVariant(w, Low) \/ CaseVariant(w, Info) THEN "INFO"
                    ELSE "WARNING"

\* ---------------------------------------------------------------------------
\* Technology descriptors with an Import Detection section
\* ---------------------------------------------------------------------------

\* sub-sections of an Import Detection section: Python with one regex, with
\* two, with an alternation and a call, with a regex no idiom matches;
\* Javascript with two regexes; Go with one
ImportItems ==
    {<<KwH3Python,
       <<"*", "*", "P", "a", "t", "t", "e", "r", "n", "*", "*", ":", " ", Backtick, "^", "i", "m", "p", "o", "r", "t", " ", "o", "p", "e", "n", "a", "i", Backtick>>>>,
     <<KwH3Python,
       <<"*", "*", "P", "a", "t", "t", "e", "r", "n", "*", "*", ":", " ", Backtick, "^", "i", "m", "p", "o", "r", "t", " ", "o", "p", "e", "n", "a", "i", Backtick>>,
       <<"*", "*", "P", "a", "t", "t", "e", "r", "n", "*", "*", ":", " ", Backtick, "^", "f", "r", "o", "m", " ", "o", "p", "e", "n", "a", "i", " ", "i", "m", "p", "o", "r", "t", Backtick>>>>,
     <<KwH3Python,
       <<"*", "*", "P", "a", "t", "t", "e", "r", "n", "*", "*", ":", " ", Backtick, "i", "m", "p", "o", "r", "t", " ", "o", "p", "e", "n", "a", "i", "|", "f", "r", "o", "m", " ", "o", "p", "e", "n", "a", "i", Backtick>>,
       <<"*", "*", "P", "a", "t", "t", "e", "r", "n", "*", "*", ":", " ", Backtick, "O", "p", "e", "n", "A", "I", "\\", "(", Backtick>>>>,
     <<KwH3Python,
       <<"*", "*", "P", "a", "t", "t", "e", "r", "n", "*", "*", ":", " ", Backtick, "c", "l", "i", "e", "n", "t", " ", "=", " ", "o", "p", "e", "n", "a", "i", Backtick>>>>,
     <<KwH3Javascript,
       <<"*", "*", "P", "a", "t", "t", "e", "r", "n", "*", "*", ":", " ", Backtick, "f", "r", "o", "m", " ", "[", "'", DQuote, "]", "o", "p", "e", "n", "a", "i", "[", "'", DQuote, "]", Backtick>>,
       <<"*", "*", "P", "a", "t", "t", "e", "r", "n", "*", "*", ":", " ", Backtick, "n", "e", "w", " ", "O", "p", "e", "n", "A", "I", "\\", "(", Backtick>>>>,
     <<KwH3Go,
       <<"*", "*", "P", "a", "t", "t", "e", "r", "n", "*", "*", ":", " ", Backtick, "i", "m", "p", "o", "r", "t", " ", DQuote, "g", "i", "t", "h", "u", "b", ".", "c", "o", "m", "/", "x", "/", "y", DQuote, Backtick>>>>}

\* the longest Import Detection section, in sub-sections
MaxImportItems == 2

\* the name heading of a descriptor: a plain name, a name that holds the word
\* secret, no heading at all
NameHeads == {<<<<"#", " ", "O", "p", "e", "n", "A", "I">>>>, <<<<"#", " ", "S", "e", "c", "r", "e", "t", " ", "M", "a", "n", "a", "g", "e", "r">>>>, <<>>}

\* what may follow the Import Detection section: nothing, or a Secrets
\* Detection section with one sub-block
SecretTails ==
    {<<>>,
     <<KwSecretsSection,
       <<"#", "#", "#", "#", " ", "A", "P", "I", " ", "K", "e", "y">>,
       <<"*", "*", "P", "a", "t", "t", "e", "r", "n", "*", "*", ":", " ", Backtick, "s", "k", "-", "[", "a", "-", "z", "]", "+", Backtick>>,
       <<"*", "*", "S", "e", "v", "e", "r", "i", "t", "y", "*", "*", ":", " ", "c", "r", "i", "t", "i", "c", "a", "l">>>>}

ImportDescriptors ==
    {Join(head \o <<KwImportSection>> \o ItemLines(items) \o tail, NL) :
        head \in NameHeads,
        items \in UNION {[1..m -> ImportItems] : m \in 0..MaxImportItems},
        tail \in SecretTails}

\* the directories a descriptor may lie in
DescriptorDirs == {<<"a", "i", "/", "x">>, <<"s", "e", "c", "r", "e", "t", "s", "/", "v">>}

InitImports ==
    /\ SecIdle
    /\ \E content \in ImportDescriptors, dir \in DescriptorDirs :
           InitTech(<<[dir |-> dir, content |-> content]>>)

SpecImports == InitImports /\ [][NextTech]_vars

\* the descriptor of the corpus has been converted
Converted == tpc \in {"files", "done", "exit"} /\ pfi > 1

\* the base id process_rag_directory gives the descriptor converted last
ConvertedBaseId ==
    <<"g", "i", "b", "s", "o", "n", ".">> \o PathBaseId(pattern_files[pfi - 1].dir)

\* the import rules and the secret rules of the run
IsImportRule(rule) == "detection_type" \in DOMAIN rule.metadata

IsSecretRule(rule) == "secret_type" \in DOMAIN rule.metadata

\* the native patterns regex_to_semgrep gives the regexes of language lang of
\* the descriptor, in document order
TranslatableOf(lang) ==
    LET given == SelectSeq(ImportsOf(data, lang), LAMBDA regex : regex_to_semgrep(regex, lang).some)
    IN  [k \in 1..Len(given) |-> regex_to_semgrep(given[k], lang).text]

\* C11: for every import regex of the descriptor that regex_to_semgrep gives
\* nothing for, a rule is emitted whose pattern-regex is that regex: no
\* extracted import regex is dropped.
C11_UnconvertibleKept ==
    Converted =>
        \A l \in 1..Len(ImportLanguages) :
            LET lang    == ImportLanguages[l]
                regexes == ImportsOf(data, lang)
            IN  \A k \in 1..Len(regexes) :
                    (data.name # <<>> /\ ~regex_to_semgrep(regexes[k], lang).some) =>
                        \E r \in 1..Len(AllRules) :
                            /\ "pattern-regex" \in DOMAIN AllRules[r]
                            /\ AllRules[r]["pattern-regex"] = regexes[k]

----------------------------------------------------------------------------
\* regex_to_semgrep called on its own

\* the regexes regex_to_semgrep is called with
CallRegexes ==
    {<<"^", "i", "m", "p", "o", "r", "t", " ", "o", "p", "e", "n", "a", "i">>,
     <<"^", "i", "m", "p", "o", "r", "t", " ", "a", "|", "b">>,
     <<"^", "f", "r", "o", "m", " ", "a", " ", "i", "m", "p", "o", "r", "t">>,
     <<"^", "f", "r", "o", "m", " ", "a", " ", "i", "m", "p", "o", "r", "t", " ", "b", "|", "c">>,
     <<"a", "|", "b">>,
     <<"f", "r", "o", "m", " ", "a", " ", "i", "m", "p", "o", "r", "t", "|", "i", "m", "p", "o", "r", "t", " ", "a">>,
     <<"O", "p", "e", "n", "A", "I", "\\", "(">>,
     <<"A", "\\", "(", "|", "B", "\\", "(">>,
     <<"f", "r", "o", "m", " ", "[", "'", DQuote, "]", "o", "p", "e", "n", "a", "i", "[", "'", DQuote, "]">>,
     <<"r", "e", "q", "u", "i", "r", "e", "\\", "(", "[", "'", DQuote, "]", "o", "p", "e", "n", "a", "i", "[", "'", DQuote, "]", "\\", ")">>,
     <<"n", "e", "w", " ", "O", "p", "e", "n", "A", "I", "\\", "(">>,
     <<"i", "m", "p", "o", "r", "t", " ", DQuote, "g", "i", "t", "h", "u", "b", ".", "c", "o", "m", "/", "x", "/", "y", DQuote>>,
     <<"i", "m", "p", "o", "r", "t", " ", DQuote, "a", "|", "b", DQuote>>,
     <<"c", "l", "i", "e", "n", "t", " ", "=", " ", "o", "p", "e", "n", "a", "i">>,
     <<>>,
     <<"f", "r", "o", "m", " ", "[", "'", DQuote, "]", "a", "|", "b", "[", "'", DQuote, "]">>}

\* the languages regex_to_semgrep is called with
CallLanguages == {Python, Javascript, Typescript, Go, Ruby, Java, Generic}

InitTranslate ==
    /\ SecIdle
    /\ TechIdle
    /\ call_regex \in CallRegexes
    /\ call_language \in CallLanguages
    /\ call_result = NoneStr
    /\ fpc = "call"

\* semgrep_pattern = regex_to_semgrep(regex, lang)
Translate ==
    /\ fpc = "call"
    /\ call_result' = regex_to_semgrep(call_regex, call_language)
    /\ fpc' = "return"
    /\ UNCHANGED <<call_regex, call_language>>
    /\ UNCHANGED secVars
    /\ UNCHANGED techVars

NextTranslate == Translate

SpecTranslate == InitTranslate /\ [][NextTranslate]_vars

\* C12: regex_to_semgrep returns None for every python regex that contains
\* an alternation bar, the ones starting with ^import or ^from ... import
\* included, and None for every regex when the language is not one of python,
\* javascript, typescript and go.
C12_AlternationIsNone ==
    fpc = "return" =>
        /\ (call_language = Python /\ Contains(call_regex, <<"|">>)) => ~call_result.some
        /\ call_language \notin {Python, Javascript, Typescript, Go} => ~call_result.some

----------------------------------------------------------------------------
\* Both converters, each over one document

MaxRuleItems == 1

\* the category documents of the run
RuleDocs == DocsOf(ExampleItems, MaxRuleItems)

\* the technology descriptors of the run
RuleDescriptors ==
    {Join(<<<<"#", " ", "O", "p", "e", "n", "A", "I">>, KwImportSection>> \o ItemLines(items) \o tail, NL) :
        items \in UNION {[1..m -> ImportItems] : m \in 0..MaxRuleItems},
        tail \in SecretTails}

InitRules ==
    /\ \E content \in RuleDocs : SecStart(OneFile(content), {})
    /\ \E content \in RuleDescriptors : TechStart(OneDescriptor(content), {})
    /\ FnIdle

NextRules == NextSec \/ NextTech

SpecRules == InitRules /\ [][NextRules]_vars

\* the matcher keys of a rule
MatcherKeys(rule) == {"pattern", "pattern-either", "pattern-regex"} \cap DOMAIN rule

\* every rule the two converters have made so far
EveryRule ==
    rules \o AllRules \o (IF "tech-debt" \in DOMAIN written THEN written["tech-debt"] ELSE <<>>)

\* C13: every rule of either converter (rules of convert_patterns_to_rules,
\* import rules, secret rules, the fixed tech-debt rules) carries exactly one
\* of pattern, pattern-either and pattern-regex, and a pattern-either list is
\* never empty.
C13_OneMatcherKey ==
    \A r \in 1..Len(EveryRule) :
        /\ Cardinality(MatcherKeys(EveryRule[r])) = 1
        /\ "pattern-either" \in DOMAIN EveryRule[r] => Len(EveryRule[r]["pattern-either"]) >= 1

\* both runs are over, and rules of all four kinds were made, one import rule
\* with a list of patterns
C13_Witness ==
    /\ pc = "done"
    /\ tpc = "exit"
    /\ rules # <<>>
    /\ \E r \in 1..Len(AllRules) : IsSecretRule(AllRules[r])
    /\ \E r \in 1..Len(AllRules) : "pattern-either" \in DOMAIN AllRules[r]
    /\ written["tech-debt"] = TechDebtRules

----------------------------------------------------------------------------
\* convert_patterns_to_rules on records with every list of language tags

\* the longest list of language tags of a record
MaxTags == 2

\* the language tags a record can carry: names of the table in several
\* spellings, graphql, a name the table does not have, and the empty tag
LanguageTags ==
    {Javascript,
     <<"J", "a", "v", "a", "S", "c", "r", "i", "p", "t">>,
     Typescript,
     <<" ", "P", "y", "t", "h", "o", "n", " ">>,
     <<"g", "r", "a", "p", "h", "q", "l">>,
     <<"r", "u", "s", "t">>,
     <<>>}

LanguageRecords ==
    {[category    |-> base_category,
      severity    |-> Medium,
      confidence  |-> DefaultConfidence,
      cwe         |-> <<>>,
      owasp       |-> <<>>,
      description |-> <<"x">>,
      regex       |-> <<"r">>,
      languages   |-> tags] : tags \in UNION {[1..n -> LanguageTags] : n \in 0..MaxTags}}

\* convert_patterns_to_rules is entered with one record
InitLanguages ==
    /\ md_files = <<>>
    /\ md_raises = {}
    /\ fidx = 1
    /\ lines = <<>>
    /\ i = 1
    /\ current_meta = MetaDefault
    /\ patterns = <<>>
    /\ all_patterns \in {<<p>> : p \in LanguageRecords}
    /\ origin = <<>>
    /\ ci = 0
    /\ rules = <<>>
    /\ seen_ids = {}
    /\ output = <<>>
    /\ pc = "convert"
    /\ TechIdle
    /\ FnIdle

SpecLanguages == InitLanguages /\ [][NextConvert]_vars

\* the position of the first tag of tags that the table maps to name
FirstTagOf(tags, name) ==
    CHOOSE j \in 1..Len(tags) :
        /\ LangMapped(tags[j]) = name
        /\ \A h \in 1..(j - 1) : LangMapped(tags[h]) # name

\* the names the table maps the tags to
TagImage(tags) == {LangMapped(tags[j]) : j \in 1..Len(tags)}

\* langs lists the names of TagImage(tags) once each, in the order in which
\* the tags first name them
IsOrderedImage(langs, tags) ==
    /\ Range(langs) = TagImage(tags)
    /\ \A a, b \in 1..Len(langs) :
           a < b => FirstTagOf(tags, langs[a]) < FirstTagOf(tags, langs[b])

\* C14: the languages of the rule made from a record are not empty, name no
\* language twice, are the names the mapping table (lower-cased, trimmed
\* tag; generic for a tag it does not have) gives the record's tags, in the
\* order of the tags, with typescript after them when javascript is there
\* and typescript is not; so typescript is there whenever javascript is.
C14_LanguagesNormalized ==
    \A k \in 1..Len(rules) :
        LET langs == rules[k].languages
            tags  == all_patterns[k].languages
            added == Javascript \in TagImage(tags) /\ Typescript \notin TagImage(tags)
        IN  /\ Len(langs) >= 1
            /\ \A a, b \in 1..Len(langs) : a # b => langs[a] # langs[b]
            /\ Javascript \in Range(langs) => Typescript \in Range(langs)
            /\ IF tags = <<>> THEN langs = <<Generic>>
               ELSE IF added
               THEN /\ langs[Len(langs)] = Typescript
                    /\ IsOrderedImage(SubSeq(langs, 1, Len(langs) - 1), tags)
               ELSE IsOrderedImage(langs, tags)

\* a record tagged only javascript has given a rule for javascript and
\* typescript
C14_Witness ==
    /\ pc = "done"
    /\ all_patterns[1].languages = <<Javascript>>
    /\ rules[1].languages = <<Javascript, Typescript>>

----------------------------------------------------------------------------
\* Technology descriptors made of sections

\* the pieces a descriptor is made of: the five sections PatternParser reads,
\* each with an item, Import Detection also with a Javascript sub-section
\* only, sections of other titles (Installation, Setup, Usage),
\* a heading of rank one, and headings of rank three and four with an item
SectionItems ==
    {<<<<"#", "#", " ", "P", "a", "c", "k", "a", "g", "e", " ", "D", "e", "t", "e", "c", "t", "i", "o", "n">>,
       <<"#", "#", "#", " ", "N", "P", "M">>,
       <<"-", " ", Backtick, "a", Backtick>>>>,
     <<<<"#", "#", "#", " ", "P", "Y", "P", "I">>,
       <<"-", " ", Backtick, "b", Backtick>>>>,
     <<<<"#", "#", " ", "I", "m", "p", "o", "r", "t", " ", "D", "e", "t", "e", "c", "t", "i", "o", "n">>,
       <<"#", "#", "#", " ", "P", "y", "t", "h", "o", "n">>,
       <<"*", "*", "P", "a", "t", "t", "e", "r", "n", "*", "*", ":", " ", Backtick, "^", "i", "m", "p", "o", "r", "t", " ", "a", Backtick>>>>,
     <<<<"#", "#", " ", "I", "m", "p", "o", "r", "t", " ", "D", "e", "t", "e", "c", "t", "i", "o", "n">>,
       <<"#", "#", "#", " ", "J", "a", "v", "a", "s", "c", "r", "i", "p", "t">>,
       <<"*", "*", "P", "a", "t", "t", "e", "r", "n", "*", "*", ":", " ", Backtick, "f", "r", "o", "m", " ", "'", "a", "'", Backtick>>>>,
     <<<<"#", "#", " ", "I", "n", "s", "t", "a", "l", "l", "a", "t", "i", "o", "n">>,
       <<"#", "#", "#", " ", "P", "y", "t", "h", "o", "n">>,
       <<"*", "*", "P", "a", "t", "t", "e", "r", "n", "*", "*", ":", " ", Backtick, "p", "i", "p", Backtick>>>>,
     <<<<"#", "#", " ", "E", "n", "v", "i", "r", "o", "n", "m", "e", "n", "t", " ", "V", "a", "r", "i", "a", "b", "l", "e", "s">>,
       <<"-", " ", Backtick, "E", Backtick>>>>,
     <<<<"#", "#", "#", "#", " ", "N", "o", "t", "e", "s">>,
       <<"-", " ", Backtick, "F", Backtick>>>>,
     <<<<"#", " ", "A", "p", "p", "e", "n", "d", "i", "x">>,
       <<"-", " ", Backtick, "G", Backtick>>>>,
     <<<<"#", "#", " ", "U", "s", "a", "g", "e">>,
       <<"-", " ", Backtick, "U", Backtick>>>>,
     <<<<"#", "#", " ", "S", "e", "c", "r", "e", "t", "s", " ", "D", "e", "t", "e", "c", "t", "i", "o", "n">>,
       <<"#", "#", "#", "#", " ", "K">>,
       <<"*", "*", "P", "a", "t", "t", "e", "r", "n", "*", "*", ":", " ", Backtick, "k", Backtick>>,
       <<"*", "*", "S", "e", "v", "e", "r", "i", "t", "y", "*", "*", ":", " ", "h", "i", "g", "h">>>>,
     <<<<"#", "#", " ", "S", "e", "t", "u", "p">>,
       <<"#", "#", "#", "#", " ", "Z">>,
       <<"*", "*", "P", "a", "t", "t", "e", "r", "n", "*", "*", ":", " ", Backtick, "z", Backtick>>,
       <<"*", "*", "S", "e", "v", "e", "r", "i", "t", "y", "*", "*", ":", " ", "l", "o", "w">>>>,
     <<<<"#", "#", " ", "D", "e", "t", "e", "c", "t", "i", "o", "n", " ", "C", "o", "n", "f", "i", "d", "e", "n", "c", "e">>,
       <<"*", "*", "I", "m", "p", "o", "r", "t", " ", "D", "e", "t", "e", "c", "t", "i", "o", "n", "*", "*", ":", " ", "9", "0", "%">>>>,
     <<<<"#", "#", "#", " ", "S", "c", "o", "r", "e", "s">>,
       <<"*", "*", "P", "a", "c", "k", "a", "g", "e", " ", "D", "e", "t", "e", "c", "t", "i", "o", "n", "*", "*", ":", " ", "8", "0", "%">>>>}

\* the largest number of pieces of a descriptor
MaxSectionItems == 3

SectionDescriptors ==
    {Join(<<<<"#", " ", "X">>>> \o ItemLines(items), NL) :
        items \in UNION {[1..m -> SectionItems] : m \in 0..MaxSectionItems}}

InitSections ==
    /\ SecIdle
    /\ \E content \in SectionDescriptors : InitTech(OneDescriptor(content))

SpecSections == InitSections /\ [][NextTech]_vars

\* the rank of a heading line, 0 for a line that is no heading
HeadingRank(line) ==
    IF StartsWith(line, <<"#", " ">>) THEN 1
    ELSE IF StartsWith(line, <<"#", "#", " ">>) THEN 2
    ELSE IF StartsWith(line, <<"#", "#", "#", " ">>) THEN 3
    ELSE IF StartsWith(line, <<"#", "#", "#", "#", " ">>) THEN 4
    ELSE 0

\* the lines after the first line of ls that starts with heading, up to the
\* next heading line whose rank is in ranks or to the end; no line when there
\* is no such first line
LinesUnder(ls, heading, ranks) ==
    LET heads == {h \in 1..Len(ls) : StartsWith(ls[h], heading)}
        ends  == {e \in 1..(Len(ls) + 1) :
                     /\ e > SetMin(heads)
                     /\ (e = Len(ls) + 1 \/ HeadingRank(ls[e]) \in ranks)}
    IN  IF heads = {} THEN <<>> ELSE SubSeq(ls, SetMin(heads) + 1, SetMin(ends) - 1)

\* the code spans of the lines of ls that are prefix, a back tick, a code
\* span, a back tick
CodeOfLines(ls, prefix) ==
    LET IsItem(line) == StartsWith(line, prefix \o <<Backtick>>) /\ EndsWith(line, <<Backtick>>)
                            /\ Len(line) >= Len(prefix) + 3
        its == SelectSeq(ls, IsItem)
    IN  [k \in 1..Len(its) |-> SubSeq(its[k], Len(prefix) + 2, Len(its[k]) - 1)]

\* the names of the sub-blocks in the lines ls: the headings of rank four
\* that a Pattern line follows
SubBlockNames(ls) ==
    LET IsHead(k) == HeadingRank(ls[k]) = 4 /\ k < Len(ls) /\ StartsWith(ls[k + 1], KwBoldPattern)
        RECURSIVE from(_)
        from(k) == IF k > Len(ls) THEN <<>>
                   ELSE (IF IsHead(k) THEN <<Strip(SubSeq(ls[k], 5, Len(ls[k])))>> ELSE <<>>) \o from(k + 1)
    IN  from(1)

\* the lines of ls that give a score
ScoreLines(ls) ==
    LET IsScore(line) == StartsWith(line, <<"*", "*">>) /\ EndsWith(line, <<"%">>)
    IN  SelectSeq(ls, IsScore)

\* the lines of the descriptor whose parse is in data
ParsedLines == Split(pattern_files[ParsedFile].content, NL)

\* C15: each of the sections Package Detection, Import Detection,
\* Environment Variables, Secrets Detection and Detection Confidence runs
\* from the line after its heading to the next heading of rank one or two,
\* whatever its title, or to the end of the document; a heading of rank
\* three or four does not end it, so every sub-section of rank three in it
\* (NPM, PYPI, Go) is extracted, up to the next heading of rank three or
\* higher, and nothing under a later section of rank two is attributed to it.
C15_SectionSpans ==
    Parsed =>
        /\ data.packages.npm =
               CodeOfLines(LinesUnder(LinesUnder(ParsedLines, KwPackageSection, {1, 2}), KwH3Npm, {1, 2, 3}),
                           <<"-", " ">>)
        /\ data.packages.pypi =
               CodeOfLines(LinesUnder(LinesUnder(ParsedLines, KwPackageSection, {1, 2}), KwH3Pypi, {1, 2, 3}),
                           <<"-", " ">>)
        /\ data.imports.python =
               CodeOfLines(LinesUnder(LinesUnder(ParsedLines, KwImportSection, {1, 2}), KwH3Python, {1, 2, 3}),
                           KwBoldPattern \o <<" ">>)
        /\ data.env_vars = CodeOfLines(LinesUnder(ParsedLines, KwEnvSection, {1, 2}), <<"-", " ">>)
        /\ [k \in 1..Len(data.secrets) |-> data.secrets[k].name] =
               SubBlockNames(LinesUnder(ParsedLines, KwSecretsSection, {1, 2}))
        /\ Cardinality(DOMAIN data.confidence) =
               Len(ScoreLines(LinesUnder(ParsedLines, KwConfidenceSection, {1, 2})))

----------------------------------------------------------------------------
\* The two drivers as functions of their corpus

\* parse_security_patterns from line k of ls on, current_meta being meta
RECURSIVE ParseFrom(_, _, _)
ParseFrom(ls, k, meta) ==
    IF k > Len(ls) THEN <<>>
    ELSE IF IsMetaLine(Strip(ls[k])) THEN ParseFrom(ls, k + 1, UpdateMeta(meta, Strip(ls[k])))
    ELSE IF StartsWith(Strip(ls[k]), KwFence)
    THEN BlockRecords(meta, Join(SubSeq(ls, k + 1, BlockEnd(ls, k) - 1), NL))
             \o ParseFrom(ls, BlockEnd(ls, k) + 1, meta)
    ELSE ParseFrom(ls, k + 1, meta)

parse_security_patterns(content) == ParseFrom(Split(content, NL), 1, MetaDefault)

\* all_patterns after the loop of process_directory over files, every file
\* readable
RECURSIVE PatternsOfFiles(_)
PatternsOfFiles(files) ==
    IF Len(files) = 0 THEN <<>>
    ELSE (IF StartsWith(Head(files).name, <<"_">>) THEN <<>>
          ELSE parse_security_patterns(Head(files).content))
             \o PatternsOfFiles(Tail(files))

\* the loop of convert_patterns_to_rules from record n + 1 on, rs being the
\* rules made so far and seen their ids
RECURSIVE ConvertFrom(_, _, _, _)
ConvertWith(records, n, rs, seen, rule_id) ==
    ConvertFrom(records, n + 1, Append(rs, BuildRule(records[n + 1], rule_id)), seen \cup {rule_id})

ConvertFrom(records, n, rs, seen) ==
    IF n >= Len(records) THEN rs
    ELSE ConvertWith(records, n, rs, seen,
                     UniqueId(RuleBaseId(records[n + 1], n), RuleBaseId(records[n + 1], n), 1, seen))

convert_patterns_to_rules(records) == ConvertFrom(records, 0, <<>>, {})

\* the rules process_directory writes for the sorted files, every file
\* readable
process_directory(files) == convert_patterns_to_rules(PatternsOfFiles(files))

\* all_rules after the loop of process_rag_directory over files, every file
\* readable, from the buckets on
RECURSIVE BucketsOfFiles(_, _)
BucketsOfFiles(files, buckets) ==
    IF Len(files) = 0 THEN buckets
    ELSE BucketsOfFiles(Tail(files),
                        Routed(buckets,
                               convert_technology(ParserData(Head(files).content),
                                                  <<"g", "i", "b", "s", "o", "n", ".">>
                                                      \o PathBaseId(Head(files).dir))))

process_rag_directory(files) == BucketsOfFiles(files, EmptyBuckets)

----------------------------------------------------------------------------
\* Corpora in which the read of some documents raises

\* the largest number of documents of a corpus
MaxCorpus == 2

\* category documents: a block under the description x, whose id depends on
\* the ids before it, and a block under no description, whose id depends on
\* the number of records before it
CorpusDocs ==
    {Join(<<<<"#", "#", "#", " ", "x">>, <<Backtick, Backtick, Backtick>>, <<"P", "A", "T", "T", "E", "R", "N", ":", " ", "a">>, <<Backtick, Backtick, Backtick>>>>, NL),
     Join(<<<<Backtick, Backtick, Backtick>>, <<"P", "A", "T", "T", "E", "R", "N", ":", " ", "b">>, <<Backtick, Backtick, Backtick>>>>, NL)}

\* technology descriptors: OpenAI with an import, and OpenAI with a secret
CorpusDescriptors ==
    {Join(<<<<"#", " ", "O", "p", "e", "n", "A", "I">>, <<"#", "#", " ", "I", "m", "p", "o", "r", "t", " ", "D", "e", "t", "e", "c", "t", "i", "o", "n">>, <<"#", "#", "#", " ", "P", "y", "t", "h", "o", "n">>, <<"*", "*", "P", "a", "t", "t", "e", "r", "n", "*", "*", ":", " ", Backtick, "^", "i", "m", "p", "o", "r", "t", " ", "o", "p", "e", "n", "a", "i", Backtick>>>>, NL),
     Join(<<<<"#", " ", "O", "p", "e", "n", "A", "I">>, <<"#", "#", " ", "S", "e", "c", "r", "e", "t", "s", " ", "D", "e", "t", "e", "c", "t", "i", "o", "n">>, <<"#", "#", "#", "#", " ", "A", "P", "I", " ", "K", "e", "y">>, <<"*", "*", "P", "a", "t", "t", "e", "r", "n", "*", "*", ":", " ", Backtick, "s", "k", "-", "[", "a", "-", "z", "]", "+", Backtick>>, <<"*", "*", "S", "e", "v", "e", "r", "i", "t", "y", "*", "*", ":", " ", "c", "r", "i", "t", "i", "c", "a", "l">>>>, NL)}

\* the names the documents of a corpus have, in sorted order
CorpusNames == <<<<"a">>, <<"b">>, <<"c">>, <<"d">>>>

\* the files of the two corpora, by position
MdFiles(docs) ==
    [k \in 1..Len(docs) |-> [name |-> CorpusNames[k] \o <<".", "m", "d">>, content |-> docs[k]]]

PatternFiles(docs) ==
    [k \in 1..Len(docs) |-> [dir |-> <<"a", "i", "/">> \o CorpusNames[k], content |-> docs[k]]]

\* both drivers are given a corpus of n documents, whose reads raise at the
\* positions raises
InitResilience ==
    \E n \in 0..MaxCorpus :
        \E raises \in SUBSET (1..n), docs \in [1..n -> CorpusDocs], descs \in [1..n -> CorpusDescriptors] :
            /\ SecStart(MdFiles(docs), raises)
            /\ TechStart(PatternFiles(descs), raises)
            /\ FnIdle

\* rag-security-to-semgrep.py is run, and rag-to-semgrep.py after it
NextResilience ==
    \/ NextSec
    \/ (pc = "done" /\ NextTech)

SpecResilience == InitResilience /\ [][NextResilience]_vars

\* the files of a corpus without the ones at the positions raises
RECURSIVE WithoutFrom(_, _, _)
WithoutFrom(files, raises, k) ==
    IF k > Len(files) THEN <<>>
    ELSE (IF k \in raises THEN <<>> ELSE <<files[k]>>) \o WithoutFrom(files, raises, k + 1)

Without(files, raises) == WithoutFrom(files, raises, 1)

\* C16: when the read of a document raises, the run goes on to the other
\* documents and to the write step, and what is written is what a run over
\* the corpus without the failing documents writes: the failing document
\* gives no rule, the rules of the others keep their ids, fields and order.
\* This holds for both drivers.
C16_FailingDocumentSkipped ==
    /\ pc = "done" => output = process_directory(Without(md_files, md_raises))
    /\ tpc \in {"done", "exit"} =>
           /\ all_rules = process_rag_directory(Without(pattern_files, pf_raises))
           /\ \A b \in DOMAIN written \ {"tech-debt"} : written[b] = all_rules[b]

\* both runs are over; the read of the first of two documents raised in
\* each, and the second document gave its rules
C16_Witness ==
    /\ pc = "done"
    /\ tpc = "done"
    /\ Len(md_files) = 2
    /\ md_raises = {1}
    /\ pf_raises = {1}
    /\ Len(output) = 1
    /\ Len(AllRules) = 1

----------------------------------------------------------------------------
\* Corpora the filesystem enumerates in any order

\* the characters of file names in the order of their code points
CodePoints == <<".", "/">> \o DIGITS \o UC \o <<"_">> \o LC

Ord(c) == CHOOSE k \in 1..Len(CodePoints) : CodePoints[k] = c

\* a < b for two str
RECURSIVE StrLess(_, _)
StrLess(a, b) ==
    IF Len(b) = 0 THEN FALSE
    ELSE IF Len(a) = 0 THEN TRUE
    ELSE IF Head(a) # Head(b) THEN Ord(Head(a)) < Ord(Head(b))
    ELSE StrLess(Tail(a), Tail(b))

\* sorted(files) for paths of one directory: insertion by name
RECURSIVE SortedByName(_)
InsertByName(file, sorted) ==
    LET before == SelectSeq(sorted, LAMBDA f : ~StrLess(file.name, f.name))
        after  == SelectSeq(sorted, LAMBDA f : StrLess(file.name, f.name))
    IN  before \o <<file>> \o after

SortedByName(files) ==
    IF Len(files) = 0 THEN <<>> ELSE InsertByName(Head(files), SortedByName(Tail(files)))

\* the orders in which the filesystem can enumerate files
Enumerations(files) ==
    {[k \in 1..Len(files) |-> files[order[k]]] :
        order \in {o \in [1..Len(files) -> 1..Len(files)] : Range(o) = 1..Len(files)}}

\* both drivers are given a corpus of n documents, which glob and rglob
\* enumerate in any order; process_directory sorts what glob gives,
\* process_rag_directory takes what rglob gives as it comes
InitOrdering ==
    \E n \in 0..MaxCorpus :
        \E docs \in [1..n -> CorpusDocs], descs \in [1..n -> CorpusDescriptors] :
            /\ \E globbed \in Enumerations(MdFiles(docs)) : SecStart(SortedByName(globbed), {})
            /\ \E globbed \in Enumerations(PatternFiles(descs)) : TechStart(globbed, {})
            /\ FnIdle

SpecOrdering == InitOrdering /\ [][NextResilience]_vars

\* the descriptors in the order of their paths
RECURSIVE SortedByDir(_)
InsertByDir(file, sorted) ==
    LET before == SelectSeq(sorted, LAMBDA f : ~StrLess(file.dir, f.dir))
        after  == SelectSeq(sorted, LAMBDA f : StrLess(file.dir, f.dir))
    IN  before \o <<file>> \o after

SortedByDir(files) ==
    IF Len(files) = 0 THEN <<>> ELSE InsertByDir(Head(files), SortedByDir(Tail(files)))

\* C17: both drivers process the documents in an order that does not depend
\* on the order of enumeration: whatever that order, every run over a corpus
\* writes the sequences of rules that the run over the corpus in the order
\* of the paths writes.
C17_OrderOfEnumerationIrrelevant ==
    /\ pc = "done" => output = process_directory(SortedByName(md_files))
    /\ tpc \in {"done", "exit"} => all_rules = process_rag_directory(SortedByDir(pattern_files))

----------------------------------------------------------------------------
\* Import rules of a descriptor

\* the positions in AllRules of the import rules for language lang
ImportRulesFor(lang) ==
    {r \in 1..Len(AllRules) : IsImportRule(AllRules[r]) /\ lang \in Range(AllRules[r].languages)}

\* rule is the import rule of the converted descriptor for lang with the
\* native patterns pats
IsImportRuleOf(rule, lang, pats) ==
    /\ rule.languages = <<lang>>
    /\ rule.id = ConvertedBaseId \o <<".">> \o TechId(data)
                     \o <<".", "i", "m", "p", "o", "r", "t", ".">> \o lang
    /\ IF Len(pats) = 1
       THEN /\ "pattern" \in DOMAIN rule
            /\ rule["pattern"] = pats[1]
            /\ "pattern-either" \notin DOMAIN rule
       ELSE /\ "pattern-either" \in DOMAIN rule
            /\ rule["pattern-either"] = [k \in 1..Len(pats) |-> [pattern |-> pats[k]]]
            /\ "pattern" \notin DOMAIN rule

\* C18: a descriptor with a name gives one import rule for each language
\* that has a regex regex_to_semgrep translates, and none for the other
\* languages; the rule has that language alone, the id
\* <base_id>.<tech_id>.import.<language>, and the translations of that
\* language's regexes only, in document order, as pattern when there is one
\* and as pattern-either when there are several. A descriptor without a name
\* gives no rule.
C18_OneImportRulePerLanguage ==
    Converted =>
        IF data.name = <<>> THEN AllRules = <<>>
        ELSE /\ \A l \in 1..Len(ImportLanguages) :
                    IF TranslatableOf(ImportLanguages[l]) = <<>>
                    THEN ImportRulesFor(ImportLanguages[l]) = {}
                    ELSE /\ Cardinality(ImportRulesFor(ImportLanguages[l])) = 1
                         /\ \A r \in ImportRulesFor(ImportLanguages[l]) :
                                IsImportRuleOf(AllRules[r], ImportLanguages[l],
                                               TranslatableOf(ImportLanguages[l]))
             /\ \A r \in 1..Len(AllRules) :
                    IsImportRule(AllRules[r]) =>
                        \E l \in 1..Len(ImportLanguages) : AllRules[r].languages = <<ImportLanguages[l]>>

\* a descriptor with regexes for two languages was converted: two import
\* rules, one with a single pattern and one with a list of two
C18_Witness ==
    /\ Converted
    /\ \E r, q \in 1..Len(AllRules) :
           /\ IsImportRule(AllRules[r])
           /\ IsImportRule(AllRules[q])
           /\ AllRules[r].languages # AllRules[q].languages
           /\ "pattern" \in DOMAIN AllRules[r]
           /\ "pattern-either" \in DOMAIN AllRules[q]
           /\ Len(AllRules[q]["pattern-either"]) = 2

\* C19: a rule is in the secrets bucket exactly when it was made from a
\* sub-block of Secrets Detection (it has metadata.secret_type); every import
\* rule is in the tech-discovery bucket, whatever the name of the technology
\* and the path of the descriptor; no rule is in two buckets, and the
\* tech-debt bucket stays empty.
C19_BucketByKind ==
    /\ \A r \in 1..Len(all_rules["secrets"]) : IsSecretRule(all_rules["secrets"][r])
    /\ \A r \in 1..Len(all_rules["tech-discovery"]) :
           /\ IsImportRule(all_rules["tech-discovery"][r])
           /\ ~IsSecretRule(all_rules["tech-discovery"][r])
    /\ all_rules["tech-debt"] = <<>>
    /\ Converted =>
           Len(AllRules) = Len(convert_technology(data, ConvertedBaseId))

=============================================================================
